---- MODULE Spec2Model ----
(***************************************************************************)
(* DineQR: the diner page (js/app.js) and the owner dashboard              *)
(* (owner/owner.js) as state machines.                                     *)
(*                                                                         *)
(* Strings the code inspects character by character (item and category     *)
(* names, search queries) are sequences of one-character strings; opaque   *)
(* identifiers are TLA+ strings.  Prices are in minor currency units.      *)
(***************************************************************************)
EXTENDS Integers, Sequences, FiniteSets, TLC

VARIABLES
    \* ---- diner page (js/app.js) ----
    currentRestaurantId,  \* app.js:33
    fsDocs,               \* document paths present in the store read by the diner page
    pc,                   \* position of init()/loadMenu(): "getDoc", "getDocs", "fetch", "shown"
    storeOutcome,         \* what loadMenuFromFirestore came to
    fetchLog,             \* the fetch() calls made so far: <<[path, outcome]>>
    loadResult,           \* what loadMenu returned: [src, doc]
    menuData,             \* app.js:28
    screen,               \* which of loadingState / errorState / menuContent is visible
    tabs,                 \* the category tabs last rendered by renderCategories
    shown,                \* the cards last rendered by renderMenuItems
    activeCategory,       \* app.js:30
    searchQuery,          \* app.js:31
    escaped,              \* TRUE when an exception left init()
    \* ---- owner dashboard (owner/owner.js) ----
    restaurantId,         \* owner.js:171
    currentUser,          \* owner.js:172
    restaurantUnsub,      \* owner.js:173
    categoriesUnsub,      \* owner.js:174
    itemsUnsubs,          \* owner.js:175
    state,                \* owner.js:178  [categories, itemsByCategory]
    view,                 \* what render() last put on the page
    setupShown,           \* showSetup / hideSetup
    page,                 \* "dashboard", "navigating" (after redirectTo), "unloaded"
    authUser,             \* the identity provider's current user
    handlers,             \* auth-state handlers suspended at the owner-link lookup
    authEvents,           \* number of auth-state changes delivered so far
    subs,                 \* the store client's active listeners
    nextSub,              \* the next listener handle
    ownerStore,           \* the store: [owners, categories, items]
    storeWrites,          \* number of writes made to the store so far
    lastEvent,            \* the handler that ran last, with what it dropped and created
    \* ---- the diner's selection (js/app.js) ----
    selectedItems,        \* app.js:29  <<[item, size, price, quantity]>>
    currentItem,          \* app.js:32  the item the product modal shows
    selectedSize,         \* app.js:587
    clickedCard,          \* the card of the last click that opened the modal
    tableNumber,          \* what getTableNumber() returns on this page
    modalSelectBtn,       \* app.js:646  the text of the modal's select button
    alertShown,           \* the alert() the last handler put on screen
    cartLog,              \* the last two operations on the selection, each with the selection before it
    \* ---- the dashboard's mutations (owner/owner.js) ----
    clock,                \* the store's server time (the documents it starts with are stamped 0)
    writeLog,             \* the writes the dashboard has issued, oldest first
    mv,                   \* the moveItem call in progress
    setup,                \* the setupSaveBtn click handler in progress
    \* ---- typing into a category's name field (owner/owner.js) ----
    typed,                \* the text typed into the name field now on the page
    timers,               \* the pending timers of debounce(): [due, live, value]
    time,                  \* the time, in ticks of half the quiet period
    burst,                \* the run of edits in progress: [n, last, final, startLog]
    \* ---- the page address (js/app.js) ----
    location,             \* window.location: [r, restaurant, hash, pathname]
    \* ---- the migration tool (tools/migrate-json-to-firestore.mjs) ----
    menuFiles,            \* restaurants/<dir>/menu.json, parsed, for each directory
    migStore,             \* the documents of the store the tool writes to, by path
    mig                   \* the run in progress: position of its loops, runs completed

dinerVars == <<currentRestaurantId, fsDocs, pc, storeOutcome, fetchLog, loadResult,
               menuData, screen, tabs, shown, activeCategory, searchQuery, escaped>>
ownerVars == <<restaurantId, currentUser, restaurantUnsub, categoriesUnsub, itemsUnsubs,
               state, view, setupShown, page, authUser, handlers, authEvents,
               subs, nextSub, ownerStore, storeWrites, lastEvent>>
cartVars  == <<selectedItems, currentItem, selectedSize, clickedCard, tableNumber, modalSelectBtn,
               alertShown, cartLog>>
editVars  == <<clock, writeLog, mv, setup>>
typingVars == <<typed, timers, time, burst>>
toolVars  == <<location, menuFiles, migStore, mig>>
vars == <<dinerVars, ownerVars, cartVars, editVars, typingVars, toolVars>>

(***************************************************************************)
(* Strings as character sequences                                          *)
(***************************************************************************)
UpperToLower == [S |-> "s", H |-> "h", C |-> "c", M |-> "m", B |-> "b", O |-> "o"]

toLowerCase(s) == [i \in 1..Len(s) |->
                     IF s[i] \in DOMAIN UpperToLower THEN UpperToLower[s[i]] ELSE s[i]]

toUpperCase(s) == [i \in 1..Len(s) |->
                     IF \E u \in DOMAIN UpperToLower : UpperToLower[u] = s[i]
                     THEN CHOOSE u \in DOMAIN UpperToLower : UpperToLower[u] = s[i]
                     ELSE s[i]]

\* String.prototype.includes
includes(s, q) == \E k \in 0..(Len(s) - Len(q)) :
                     \A i \in 1..Len(q) : s[k + i] = q[i]

(***************************************************************************)
(* Menu documents                                                          *)
(***************************************************************************)
NoCategories == [t |-> "undefined", v |-> <<>>]
List(v)      == [t |-> "list", v |-> v]

\* JS truthiness of a document's categories member
Truthy(c) == c.t \in {"list", "truthy-scalar"}

Item(name, description, price, sizes, available) ==
    [name |-> name, description |-> description, price |-> price,
     sizes |-> sizes, available |-> available]

Samosa == Item(<<"S","a","m","o","s","a">>, <<"c","r","i","s","p">>, 350, <<>>, TRUE)
Halwa  == Item(<<"H","a","l","w","a">>, <<"s","w","e","e","t">>, 500, <<>>, TRUE)

\* restaurants/spice-garden/menu.json: one enabled and one disabled category
SpiceGardenMenu ==
    [t |-> "object", origin |-> "static", id |-> "spice-garden",
     categories |-> List(<<
        [name |-> <<"S","t","a","r","t","e","r","s">>, enabled |-> TRUE,  items |-> <<Samosa>>],
        [name |-> <<"H","i","d","d","e","n">>,         enabled |-> FALSE, items |-> <<Halwa>>] >>)]

\* bodies a static candidate can parse to
StaticDocs ==
    { SpiceGardenMenu,
      [t |-> "object", origin |-> "static", id |-> "x", categories |-> List(<<>>)],
      [t |-> "object", origin |-> "static", id |-> "x", categories |-> NoCategories],
      [t |-> "object", origin |-> "static", id |-> "x",
       categories |-> [t |-> "truthy-scalar", v |-> <<>>]],
      [t |-> "null", origin |-> "static", id |-> "x", categories |-> NoCategories] }

ChickenMandi == Item(<<"C","h","i","c","k","e","n">>, <<"s","m","o","k","e","d">>, 0,
                     << [name |-> "Quarter", price |-> 199],
                        [name |-> "Half",    price |-> 349],
                        [name |-> "Full",    price |-> 599] >>, TRUE)
ClassicBurger == Item(<<"B","u","r","g","e","r">>, <<"j","u","i","c","y">>, 299, <<>>, TRUE)

DEFAULT_RESTAURANT == "ajwa"

fallbackMenus ==
    [ajwa    |-> [t |-> "object", origin |-> "builtin", id |-> "ajwa",
                  categories |-> List(<< [name |-> <<"M","a","n","d","i">>, enabled |-> TRUE,
                                          items |-> <<ChickenMandi>>] >>)],
     gogrill |-> [t |-> "object", origin |-> "builtin", id |-> "gogrill",
                  categories |-> List(<< [name |-> <<"B","u","r","g","e","r","s">>, enabled |-> TRUE,
                                          items |-> <<ClassicBurger>>] >>)]]

\* fallbackMenus is an object literal: besides its own keys, a property read
\* finds the members it inherits from Object.prototype
ObjectPrototypeKeys == {"constructor", "toString", "valueOf", "hasOwnProperty"}

InheritedMember(key) ==
    [t |-> "function", origin |-> "Object.prototype", id |-> key, categories |-> NoCategories]

getFallbackMenu(rid) ==
    IF rid \in DOMAIN fallbackMenus THEN fallbackMenus[rid]
    ELSE IF rid \in ObjectPrototypeKeys THEN InheritedMember(rid)
    ELSE fallbackMenus[DEFAULT_RESTAURANT]

\* identifiers the page can be opened with (getRestaurantIdFromUrl)
RestaurantIds == {"ajwa", "gogrill", "spice-garden", "constructor"}

(***************************************************************************)
(* The store as the diner page reads it                                    *)
(***************************************************************************)
RestaurantDocPath(rid)  == <<"restaurants", rid>>
MenuItemPath(rid, iid)  == <<"restaurants", rid, "menuItems", iid>>
\* the layout the owner dashboard and the migration write
ItemPath(rid, cid, iid) == <<"restaurants", rid, "categories", cid, "items", iid>>

\* the documents the diner's store may hold for a restaurant
StorePaths(rid) == { RestaurantDocPath(rid), MenuItemPath(rid, "m1"),
                     MenuItemPath(rid, "m2"), ItemPath(rid, "starters", "tikka-0") }

\* the item the owner dashboard or the migration stored under categories/starters/items
Tikka == Item(<<"T","i","k","k","a">>, <<>>, 450, <<>>, TRUE)

\* fields of the documents of restaurants/{id}/menuItems (category "" is absent)
MenuItemData ==
    [m1 |-> [name |-> Samosa.name, description |-> Samosa.description, price |-> 350,
             category |-> <<"s","t","a","r","t","e","r","s">>, available |-> TRUE],
     m2 |-> [name |-> Halwa.name, description |-> <<>>, price |-> 500,
             category |-> <<>>, available |-> FALSE]]

\* getDocs(collection(db, 'restaurants', restaurantId, 'menuItems')), in id order
MenuItemOrder == <<"m1", "m2">>
menuItemsSnapshot(docs, rid) ==
    SelectSeq(MenuItemOrder, LAMBDA iid : MenuItemPath(rid, iid) \in docs)

\* item.category || 'other'
Other == <<"o", "t", "h", "e", "r">>

\* menuItemsSnapshot.empty (app.js:226)
snapshotEmptyAlways(snap) == TRUE
snapshotEmptyNever(snap) == FALSE
snapshotEmpty(snap) == snap = <<>>

\* name: categoryKey.charAt(0).toUpperCase() + categoryKey.slice(1).replace(/-/g, ' ')
categoryName(key) ==
    [i \in 1..Len(key) |-> IF i = 1 THEN toUpperCase(<<key[1]>>)[1]
                           ELSE IF key[i] = "-" THEN " " ELSE key[i]]

\* one step of the forEach of loadMenuFromFirestore: group the item under its key
addMenuItem(cats, iid) ==
    LET d   == MenuItemData[iid]
        key == IF d.category = <<>> THEN Other ELSE d.category
        nm  == categoryName(key)
        it  == Item(d.name, d.description, d.price, <<>>, d.available)
    IN IF \E k \in 1..Len(cats) : cats[k].name = nm
       THEN [k \in 1..Len(cats) |->
               IF cats[k].name = nm
               THEN [cats[k] EXCEPT !.items = Append(@, it)] ELSE cats[k]]
       ELSE Append(cats, [name |-> nm, enabled |-> TRUE, items |-> <<it>>])

RECURSIVE groupMenuItems(_, _)
groupMenuItems(cats, ids) ==
    IF ids = <<>> THEN cats
    ELSE groupMenuItems(addMenuItem(cats, Head(ids)), Tail(ids))

\* the MenuDocument loadMenuFromFirestore assembles from a non-empty snapshot
firestoreMenu(docs, rid) ==
    [t |-> "object", origin |-> "firestore", id |-> rid,
     categories |-> List(groupMenuItems(<<>>, menuItemsSnapshot(docs, rid)))]

(***************************************************************************)
(* Static menu.json candidates                                             *)
(***************************************************************************)
NumPaths == 4

FetchOutcomes == {"network-error", "http-error", "json-ok", "json-unparseable",
                  "text-ok", "text-unparseable"}

resOk(o)           == o \notin {"network-error", "http-error"}
contentTypeJson(o) == o \in {"json-ok", "json-unparseable"}
bodyParses(o)      == o \in {"json-ok", "text-ok"}

\* the body of the for loop of loadMenu: TRUE when it returns the parsed data
candidateAcceptedAnyOk(o) == resOk(o)
candidateAcceptedJsonOnly(o) == resOk(o) /\ contentTypeJson(o) /\ bodyParses(o)
candidateAccepted(o) ==
    IF o = "network-error" THEN FALSE          \* fetch rejects: caught, next path
    ELSE IF ~resOk(o) THEN FALSE
    ELSE IF contentTypeJson(o) THEN bodyParses(o)   \* res.json() rejects: caught
    ELSE bodyParses(o)                              \* JSON.parse throws: caught

(***************************************************************************)
(* Rendering                                                               *)
(***************************************************************************)
All == <<"a", "l", "l">>

\* menuData.categories || []
categoriesOrEmpty(md) == IF Truthy(md.categories) THEN md.categories ELSE List(<<>>)

\* renderCategories throws when its argument has no map method
renderThrows(md) == categoriesOrEmpty(md).t # "list"

renderCategories(categories) ==
    <<All>> \o [i \in 1..Len(categories) |-> categories[i].name]

matchesSearch(item, q) ==
    \/ q = <<>>
    \/ includes(toLowerCase(item.name), toLowerCase(q))
    \/ includes(toLowerCase(item.description), toLowerCase(q))

RECURSIVE filterCategories(_, _, _)
filterCategories(cats, active, q) ==
    IF cats = <<>> THEN <<>>
    ELSE LET c    == Head(cats)
             skip == active # All /\ c.name # active
             its  == SelectSeq(c.items, LAMBDA it : matchesSearch(it, q))
             here == [i \in 1..Len(its) |-> [item |-> its[i], categoryName |-> c.name]]
         IN (IF skip THEN <<>> ELSE here) \o filterCategories(Tail(cats), active, q)

getFilteredItems(md, active, q) ==
    IF md.t = "null" \/ ~Truthy(md.categories) THEN <<>>
    ELSE filterCategories(md.categories.v, active, q)

\* renderMenuItems groups the filtered items by category name, first occurrence first
RECURSIVE groupByCategory(_)
groupByCategory(items) ==
    IF items = <<>> THEN <<>>
    ELSE LET n == Head(items).categoryName
         IN SelectSeq(items, LAMBDA x : x.categoryName = n)
            \o groupByCategory(SelectSeq(items, LAMBDA x : x.categoryName # n))

renderMenuItems(md, active, q) == groupByCategory(getFilteredItems(md, active, q))

(***************************************************************************)
(* The diner page: init() and loadMenu()                                   *)
(***************************************************************************)
NullDoc  == [t |-> "null", origin |-> "none", id |-> "", categories |-> NoCategories]
NoResult == [src |-> "none", doc |-> NullDoc]

\* search strings typed by the diner (already trimmed)
Queries == { <<>>, <<"H", "a">> }

\* the rest of init() once loadMenu has returned doc: the validity check, the
\* rendering in the try block and the fallback rendering in the catch block
finishInit(src, doc) ==
    LET rid     == currentRestaurantId
        checked == IF doc.t = "null" \/ ~Truthy(doc.categories)
                   THEN getFallbackMenu(rid) ELSE doc
        caught  == renderThrows(checked)
        final   == IF caught THEN getFallbackMenu(rid) ELSE checked
    IN /\ loadResult' = [src |-> src, doc |-> doc]
       /\ menuData' = final
       /\ pc' = "shown"
       /\ IF renderThrows(final)
          THEN /\ escaped' = TRUE
               /\ UNCHANGED <<screen, tabs, shown>>
          ELSE /\ escaped' = FALSE
               /\ tabs' = renderCategories(categoriesOrEmpty(final).v)
               /\ shown' = renderMenuItems(final, activeCategory, searchQuery)
               /\ screen' = "menu"

\* await getDoc(doc(db, 'restaurants', restaurantId)) settles
GetDocSettles ==
    /\ pc = "getDoc"
    /\ \E rejects \in BOOLEAN :
         IF rejects
         THEN storeOutcome' = "error" /\ pc' = "fetch"
         ELSE IF RestaurantDocPath(currentRestaurantId) \notin fsDocs
         THEN storeOutcome' = "absent" /\ pc' = "fetch"
         ELSE storeOutcome' = "exists" /\ pc' = "getDocs"
    /\ UNCHANGED <<currentRestaurantId, fsDocs, fetchLog, loadResult, menuData, screen,
                   tabs, shown, activeCategory, searchQuery, escaped>>
    /\ UNCHANGED <<ownerVars, cartVars, editVars, typingVars, toolVars>>

\* await getDocs(menuItemsRef) settles
GetDocsSettles ==
    /\ pc = "getDocs"
    /\ \E rejects \in BOOLEAN :
         IF rejects
         THEN /\ storeOutcome' = "error" /\ pc' = "fetch"
              /\ UNCHANGED <<loadResult, menuData, screen, tabs, shown, escaped>>
         ELSE IF snapshotEmpty(menuItemsSnapshot(fsDocs, currentRestaurantId))
         THEN /\ storeOutcome' = "empty" /\ pc' = "fetch"
              /\ UNCHANGED <<loadResult, menuData, screen, tabs, shown, escaped>>
         ELSE /\ storeOutcome' = "found"
              /\ finishInit("firestore", firestoreMenu(fsDocs, currentRestaurantId))
    /\ UNCHANGED <<currentRestaurantId, fsDocs, fetchLog, activeCategory, searchQuery>>
    /\ UNCHANGED <<ownerVars, cartVars, editVars, typingVars, toolVars>>

\* one iteration of the for loop over paths: the fetch and the reading of its body
FetchSettles ==
    /\ pc = "fetch"
    /\ \E o \in FetchOutcomes, body \in StaticDocs :
         LET n == Len(fetchLog) + 1 IN
         /\ fetchLog' = Append(fetchLog, [path |-> n, outcome |-> o])
         /\ IF candidateAccepted(o)
            THEN finishInit("static", body)
            ELSE IF n = NumPaths
            THEN finishInit("builtin", getFallbackMenu(currentRestaurantId))
            ELSE UNCHANGED <<pc, loadResult, menuData, screen, tabs, shown, escaped>>
    /\ UNCHANGED <<currentRestaurantId, fsDocs, storeOutcome, activeCategory, searchQuery>>
    /\ UNCHANGED <<ownerVars, cartVars, editVars, typingVars, toolVars>>

\* click on a rendered category tab
CategoryTabClick ==
    /\ pc = "shown"
    /\ \E k \in 1..Len(tabs) :
         /\ activeCategory' = tabs[k]
         /\ activeCategory' # activeCategory
         /\ shown' = renderMenuItems(menuData, tabs[k], searchQuery)
    /\ UNCHANGED <<currentRestaurantId, fsDocs, pc, storeOutcome, fetchLog, loadResult,
                   menuData, screen, tabs, searchQuery, escaped>>
    /\ UNCHANGED <<ownerVars, cartVars, editVars, typingVars, toolVars>>

\* input event on the search box (the listener is installed before the menu loads)
SearchInput ==
    /\ \E q \in Queries :
         /\ q # searchQuery
         /\ searchQuery' = q
         /\ shown' = renderMenuItems(menuData, activeCategory, q)
    /\ UNCHANGED <<currentRestaurantId, fsDocs, pc, storeOutcome, fetchLog, loadResult,
                   menuData, screen, tabs, activeCategory, escaped>>
    /\ UNCHANGED <<ownerVars, cartVars, editVars, typingVars, toolVars>>

(***************************************************************************)
(* The owner dashboard (owner/owner.js, initDashboardPage)                 *)
(***************************************************************************)
MaxSubs        == 6    \* listener handles handed out in one run
MaxAuthEvents  == 2    \* auth-state changes delivered in one run
MaxStoreWrites == 1    \* writes to the store by any client in one run

NoUser == "null"
NoRid  == ""           \* null, undefined and "" are all falsy restaurant ids
NoSub  == 0

OwnerUsers == {"u1", "u2"}
OwnerRids  == {"r1", "r2"}
CatIds     == {"c1", "c2"}
ItemIds    == {"i1"}
WrittenRids == {"r1"}  \* the restaurant whose menu clients edit during the run

EmptyMap == [x \in {} |-> x]
Without(m, ks) == [k \in DOMAIN m \ ks |-> m[k]]
PutIfAbsent(m, k, v) == [x \in DOMAIN m \cup {k} |-> IF x \in DOMAIN m THEN m[x] ELSE v]
Put(m, k, v)   == [x \in DOMAIN m \cup {k} |-> IF x = k THEN v ELSE m[x]]
Range(m)       == {m[k] : k \in DOMAIN m}

\* documents a client writes when it creates a category or an item
NewCategoryDoc(rid, cid) ==
    [name |-> IF cid = "c1" THEN (IF rid = "r1" THEN <<"M","a">> ELSE <<"S","o">>)
              ELSE <<"D","r">>,
     enabled |-> TRUE]
NewItemDoc(rid, cid, iid) ==
    [name |-> IF rid = "r1" THEN <<"S","a">> ELSE <<"H","a">>,
     price |-> IF rid = "r1" THEN 350 ELSE 500, type |-> "veg", available |-> TRUE]

(* localeCompare on the names of the model: letters compare without regard  *)
(* to case first; Array.prototype.sort is stable, and the Map it sorts was  *)
(* filled in the query's order (name, then document id).                    *)
CharOrder == <<"a", "d", "D", "h", "H", "m", "M", "o", "r", "s", "S">>
CharRank(c) == CHOOSE k \in 1..Len(CharOrder) : toLowerCase(<<CharOrder[k]>>) = toLowerCase(<<c>>)

RECURSIVE nameBefore(_, _)
nameBefore(a, b) ==
    IF a = <<>> THEN b # <<>>
    ELSE IF b = <<>> THEN FALSE
    ELSE IF CharRank(Head(a)) # CharRank(Head(b)) THEN CharRank(Head(a)) < CharRank(Head(b))
    ELSE nameBefore(Tail(a), Tail(b))

IdOrder == <<"c1", "c2", "c3", "i1", "i2", "i3">>
IdRank(id) == CHOOSE k \in 1..Len(IdOrder) : IdOrder[k] = id

\* a before b in the order "name, then document id"
docBefore(m, a, b) ==
    \/ nameBefore(m[a].name, m[b].name)
    \/ /\ ~nameBefore(m[b].name, m[a].name)
       /\ IdRank(a) < IdRank(b)

RECURSIVE sortedIds(_, _)
sortedIds(m, ids) ==
    IF ids = {} THEN <<>>
    ELSE LET first == CHOOSE a \in ids : \A b \in ids \ {a} : docBefore(m, a, b)
         IN <<first>> \o sortedIds(m, ids \ {first})

\* render(): the category cards in name order, each with its item rows in name order
renderView(st) ==
    LET order == sortedIds(st.categories, DOMAIN st.categories)
    IN [k \in 1..Len(order) |->
          LET cid   == order[k]
              items == IF cid \in DOMAIN st.itemsByCategory
                       THEN st.itemsByCategory[cid] ELSE EmptyMap
              io    == sortedIds(items, DOMAIN items)
          IN [id |-> cid, name |-> st.categories[cid].name,
              enabled |-> st.categories[cid].enabled,
              checked |-> st.categories[cid].enabled # FALSE,    \* switchInput.checked
              items |-> [j \in 1..Len(io) |-> [id |-> io[j], name |-> items[io[j]].name,
                                                price |-> items[io[j]].price]]]]

\* no text typed into a field since it was put on the page
NoText == << "(untouched)" >>

\* render() empties the categories element (owner.js:213) and builds new
\* fields: the field the owner typed into leaves the page with its text, the
\* timers of its debounce() stay pending
renderInputs ==
    /\ typed' = NoText
    /\ timers' = {[t EXCEPT !.live = FALSE, !.value = IF t.live THEN typed ELSE t.value] :
                    t \in timers}
    /\ UNCHANGED <<time, burst>>

\* a listener registered with onSnapshot; dirty: a snapshot is waiting to be delivered
Listener(id, kind, rid, cat) == [id |-> id, kind |-> kind, rid |-> rid, cat |-> cat, dirty |-> TRUE]

\* the handles clearRealtimeListeners calls
clearedHandles(rUnsub, cUnsub, iUnsubs) == {rUnsub, cUnsub} \cup Range(iUnsubs)

unsubscribe(ls, handles) == {l \in ls : l.id \notin handles}

\* categories of the mirror that the next snapshot no longer holds (owner.js:746-747)
removedCategoriesNone(mirror, next) == {}
removedCategories(mirror, next) == DOMAIN mirror \ DOMAIN next

\* owner.js:759: a category that already has an items listener is skipped
needsItemsListenerAlways(iUnsubs, cid) == TRUE
needsItemsListener(iUnsubs, cid) == cid \notin DOMAIN iUnsubs

\* resolveRestaurantIdForOwner: the link of the owner record, null when there is none
resolveRestaurantIdForOwner(owners, user) == owners[user]

\* what the last handler did: the categories it dropped, the categories whose
\* mirrored items it forgot, and the categories it created an items listener for
Event(op, removed, forgot, created) ==
    [op |-> op, removed |-> removed, forgot |-> forgot, created |-> created]

InitialStore(link2) ==
    [owners      |-> [u1 |-> "r1", u2 |-> link2],
     restaurants |-> {"r1"},
     categories  |-> [r1 |-> [c \in {"c1", "c2"} |-> NewCategoryDoc("r1", c)],
                      r2 |-> [c \in {"c1"} |-> NewCategoryDoc("r2", c)]],
     items       |-> [p \in OwnerRids \X CatIds |->
                        IF p[2] = "c1" THEN [i \in {"i1"} |-> NewItemDoc(p[1], p[2], i)]
                        ELSE EmptyMap]]

\* showSetup(message)
showSetup(v) == [v EXCEPT !.title = "Owner"]

\* the synchronous part of the onAuthStateChanged handler, up to the await
AuthStateChanged ==
    /\ page # "unloaded"
    /\ authEvents < MaxAuthEvents
    /\ \E u \in OwnerUsers \cup {NoUser} :
         /\ authEvents = 0 \/ u # authUser
         /\ authUser' = u
         /\ currentUser' = u
         /\ IF u = NoUser
            THEN page' = "navigating" /\ handlers' = handlers      \* redirectTo; return
            ELSE page' = page /\ handlers' = handlers \cup {[n |-> authEvents + 1, user |-> u]}
    /\ authEvents' = authEvents + 1
    \* clearRealtimeListeners()
    /\ subs' = unsubscribe(subs, clearedHandles(restaurantUnsub, categoriesUnsub, itemsUnsubs))
    /\ restaurantUnsub' = NoSub
    /\ categoriesUnsub' = NoSub
    /\ itemsUnsubs' = EmptyMap
    /\ lastEvent' = Event("other", {}, {}, {})
    /\ UNCHANGED <<restaurantId, state, view, setupShown, nextSub, ownerStore, storeWrites>>
    /\ UNCHANGED <<dinerVars, cartVars, editVars, typingVars, toolVars>>

\* the handler resumes when the owner-link lookup settles; startRealtime() inlined
ResolveSettles ==
    /\ page # "unloaded"
    /\ \E h \in handlers, rejects \in BOOLEAN :
         LET rid == resolveRestaurantIdForOwner(ownerStore.owners, h.user) IN
         /\ handlers' = handlers \ {h}
         /\ IF rejects
            THEN /\ setupShown' = TRUE                      \* catch: showSetup
                 /\ view' = showSetup(view)
                 /\ UNCHANGED <<restaurantId, restaurantUnsub, categoriesUnsub, subs, nextSub>>
            ELSE /\ restaurantId' = rid
                 /\ IF rid = NoRid
                    THEN /\ setupShown' = TRUE
                         /\ view' = showSetup(view)
                         /\ UNCHANGED <<restaurantUnsub, categoriesUnsub, subs, nextSub>>
                    ELSE /\ nextSub + 1 <= MaxSubs
                         /\ setupShown' = FALSE                   \* hideSetup
                         /\ view' = view
                         /\ restaurantUnsub' = nextSub
                         /\ categoriesUnsub' = nextSub + 1
                         /\ subs' = subs \cup { Listener(nextSub, "restaurant", rid, ""),
                                                Listener(nextSub + 1, "categories", rid, "") }
                         /\ nextSub' = nextSub + 2
    /\ lastEvent' = Event("other", {}, {}, {})
    /\ UNCHANGED <<currentUser, itemsUnsubs, state, page, authUser, authEvents,
                   ownerStore, storeWrites>>
    /\ UNCHANGED <<dinerVars, cartVars, editVars, typingVars, toolVars>>

\* snapshot of restaurants/{id}: the header shows the name, or the current id
RestaurantSnapshot ==
    /\ page # "unloaded"
    /\ \E l \in subs :
         /\ l.kind = "restaurant" /\ l.dirty
         /\ subs' = (subs \ {l}) \cup {[l EXCEPT !.dirty = FALSE]}
         /\ view' = [view EXCEPT !.title = IF l.rid \in ownerStore.restaurants
                                          THEN l.rid ELSE restaurantId]
    /\ lastEvent' = Event("other", {}, {}, {})
    /\ UNCHANGED <<restaurantId, currentUser, restaurantUnsub, categoriesUnsub, itemsUnsubs,
                   state, setupShown, page, authUser, handlers, authEvents, nextSub,
                   ownerStore, storeWrites>>
    /\ UNCHANGED <<dinerVars, cartVars, editVars, typingVars, toolVars>>

\* snapshot of the categories collection (owner.js:733-783)
CategoriesSnapshot ==
    /\ page # "unloaded"
    /\ \E l \in subs :
         /\ l.kind = "categories" /\ l.dirty
         /\ LET next     == ownerStore.categories[l.rid]
                removed  == removedCategories(state.categories, next)
                forgot   == removed \cap DOMAIN state.itemsByCategory
                dropped  == {itemsUnsubs[c] : c \in removed \cap DOMAIN itemsUnsubs}
                kept     == Without(itemsUnsubs, removed)
                missing  == {c \in DOMAIN next : needsItemsListener(kept, c)}
                order    == sortedIds(next, missing)
                throws   == restaurantId = NoRid /\ missing # {}   \* collection() rejects the path
                handle   == [c \in missing |->
                               nextSub - 1 + CHOOSE k \in 1..Len(order) : order[k] = c]
                st1      == [categories |-> next,
                             itemsByCategory |-> Without(state.itemsByCategory, removed)]
                ls1      == (unsubscribe(subs, dropped) \ {l}) \cup {[l EXCEPT !.dirty = FALSE]}
            IN /\ state' = st1
               /\ IF throws
                  THEN /\ itemsUnsubs' = kept
                       /\ subs' = ls1
                       /\ UNCHANGED <<nextSub, view, typingVars>>
                       /\ lastEvent' = Event("categories", removed, forgot, {})
                  ELSE /\ nextSub + Cardinality(missing) - 1 <= MaxSubs
                       /\ itemsUnsubs' = [c \in DOMAIN kept \cup missing |->
                                            IF c \in missing THEN handle[c] ELSE kept[c]]
                       /\ subs' = ls1 \cup {Listener(handle[c], "items", restaurantId, c) :
                                              c \in missing}
                       /\ nextSub' = nextSub + Cardinality(missing)
                       /\ view' = [view EXCEPT !.cards = renderView(st1)]
                       /\ renderInputs
                       /\ lastEvent' = Event("categories", removed, forgot, missing)
    /\ UNCHANGED <<restaurantId, currentUser, restaurantUnsub, categoriesUnsub, setupShown,
                   page, authUser, handlers, authEvents, ownerStore, storeWrites>>
    /\ UNCHANGED <<dinerVars, cartVars, editVars, toolVars>>

\* snapshot of one category's items collection (owner.js:763-777)
ItemsSnapshot ==
    /\ page # "unloaded"
    /\ \E l \in subs :
         /\ l.kind = "items" /\ l.dirty
         /\ LET st1 == [state EXCEPT !.itemsByCategory =
                           Put(@, l.cat, ownerStore.items[<<l.rid, l.cat>>])]
            IN /\ state' = st1
               /\ view' = [view EXCEPT !.cards = renderView(st1)]
               /\ renderInputs
         /\ subs' = (subs \ {l}) \cup {[l EXCEPT !.dirty = FALSE]}
    /\ lastEvent' = Event("other", {}, {}, {})
    /\ UNCHANGED <<restaurantId, currentUser, restaurantUnsub, categoriesUnsub, itemsUnsubs,
                   setupShown, page, authUser, handlers, authEvents, nextSub,
                   ownerStore, storeWrites>>
    /\ UNCHANGED <<dinerVars, cartVars, editVars, toolVars>>

\* render() called once more, nothing in the mirror having changed
Render ==
    /\ page # "unloaded"
    /\ restaurantId # NoRid
    /\ view' = [view EXCEPT !.cards = renderView(state)]
    /\ renderInputs
    /\ lastEvent' = Event("other", {}, {}, {})
    /\ UNCHANGED <<restaurantId, currentUser, restaurantUnsub, categoriesUnsub, itemsUnsubs,
                   state, setupShown, page, authUser, handlers, authEvents, subs, nextSub,
                   ownerStore, storeWrites>>
    /\ UNCHANGED <<dinerVars, cartVars, editVars, toolVars>>

\* listeners on a collection that a write changed get a new snapshot
markDirty(ls, kind, rid, cat) ==
    {IF l.kind = kind /\ l.rid = rid /\ l.cat = cat THEN [l EXCEPT !.dirty = TRUE] ELSE l :
       l \in ls}

\* some client creates or deletes a category document
StoreWriteCategory ==
    /\ page # "unloaded"
    /\ storeWrites < MaxStoreWrites
    /\ \E rid \in WrittenRids, cid \in CatIds :
         /\ ownerStore' = [ownerStore EXCEPT !.categories[rid] =
                              IF cid \in DOMAIN @ THEN Without(@, {cid})
                              ELSE Put(@, cid, NewCategoryDoc(rid, cid))]
         /\ subs' = markDirty(subs, "categories", rid, "")
    /\ storeWrites' = storeWrites + 1
    /\ lastEvent' = Event("other", {}, {}, {})
    /\ UNCHANGED <<restaurantId, currentUser, restaurantUnsub, categoriesUnsub, itemsUnsubs,
                   state, view, setupShown, page, authUser, handlers, authEvents, nextSub>>
    /\ UNCHANGED <<dinerVars, cartVars, editVars, typingVars, toolVars>>

\* some client creates or deletes an item document
StoreWriteItem ==
    /\ page # "unloaded"
    /\ storeWrites < MaxStoreWrites
    /\ \E rid \in WrittenRids, cid \in CatIds, iid \in ItemIds :
         /\ ownerStore' = [ownerStore EXCEPT !.items[<<rid, cid>>] =
                              IF iid \in DOMAIN @ THEN Without(@, {iid})
                              ELSE Put(@, iid, NewItemDoc(rid, cid, iid))]
         /\ subs' = markDirty(subs, "items", rid, cid)
    /\ storeWrites' = storeWrites + 1
    /\ lastEvent' = Event("other", {}, {}, {})
    /\ UNCHANGED <<restaurantId, currentUser, restaurantUnsub, categoriesUnsub, itemsUnsubs,
                   state, view, setupShown, page, authUser, handlers, authEvents, nextSub>>
    /\ UNCHANGED <<dinerVars, cartVars, editVars, typingVars, toolVars>>

\* the navigation started by redirectTo commits: the document and its listeners are gone
Unload ==
    /\ page = "navigating"
    /\ page' = "unloaded"
    /\ subs' = {}
    /\ handlers' = {}
    /\ lastEvent' = Event("other", {}, {}, {})
    /\ UNCHANGED <<restaurantId, currentUser, restaurantUnsub, categoriesUnsub, itemsUnsubs,
                   state, view, setupShown, authUser, authEvents, nextSub,
                   ownerStore, storeWrites>>
    /\ UNCHANGED <<dinerVars, cartVars, editVars, typingVars, toolVars>>

(***************************************************************************)
(* The diner's selection (js/app.js: product modal, selection panel,       *)
(* show-to-waiter)                                                         *)
(***************************************************************************)
MaxQuantity == 3       \* quantity the diner raises one entry to in one run

Undefined == "undefined"
NoItem    == [t |-> "null"]
NoSize    == [t |-> "null"]
NoCard    == [t |-> "none"]
NoSummary == [t |-> "none"]
Str(s)    == [t |-> "string", v |-> s]

Biryani == Item(<<"B","i","r","y","a","n","i">>, <<"r","i","c","e">>, 0,
                << [name |-> "Half", price |-> 180],
                   [name |-> "Full", price |-> 300] >>, TRUE)
\* a second item called Samosa, in another category and at another price
BakedSamosa == Item(<<"S","a","m","o","s","a">>, <<"b","a","k","e","d">>, 400, <<>>, TRUE)
Kheer   == Item(<<"K","h","e","e","r">>, <<"m","i","l","k">>, 250, <<>>, FALSE)

\* a menu.json in the documented layout (the restaurant's name is under
\* "restaurant"); topName is a top-level "name" member, or Undefined
CartMenu(topName) ==
    [t |-> "object", origin |-> "static", id |-> "spice-garden", name |-> topName,
     restaurant |-> [id |-> "spice-garden", name |-> "Spice Garden"],
     categories |-> List(<<
        [name |-> <<"S","t","a","r","t","e","r","s">>, enabled |-> TRUE, items |-> <<Samosa>>],
        [name |-> <<"M","a","i","n","s">>,             enabled |-> TRUE, items |-> <<Biryani, Kheer>>],
        [name |-> <<"S","n","a","c","k","s">>,         enabled |-> TRUE, items |-> <<BakedSamosa>>] >>)]

CartMenus == { CartMenu(Undefined) }

\* the page's table identifier, "" when the page has none
TableNumbers == {"", "T5"}
getTableNumber == tableNumber

\* every item of the menu in document order (the two nested loops of findItemByName)
RECURSIVE itemsInOrder(_)
itemsInOrder(cats) ==
    IF cats = <<>> THEN <<>> ELSE Head(cats).items \o itemsInOrder(Tail(cats))

findItemByName(md, name) ==
    LET its == SelectSeq(itemsInOrder(categoriesOrEmpty(md).v), LAMBDA it : it.name = name)
    IN IF its = <<>> THEN NoItem ELSE its[1]

isItemSelected(sel, name) == \E i \in 1..Len(sel) : sel[i].item.name = name

\* updateModalButton(isSelected): the text it gives the select button
updateModalButton(isSelected) ==
    IF isSelected THEN "Remove from Selection" ELSE "Select Item"

\* Array.prototype.findIndex with the predicate the selection handlers share;
\* 0 stands for "not found"
findIndex(sel, name, size) ==
    LET hits == {i \in 1..Len(sel) : sel[i].item.name = name /\ sel[i].size = size}
    IN IF hits = {} THEN 0 ELSE CHOOSE i \in hits : \A j \in hits : i <= j

\* selectedItems.splice(idx, 1)
splice(sel, idx) == SubSeq(sel, 1, idx - 1) \o SubSeq(sel, idx + 1, Len(sel))

\* const sizeKey = selectedSize ? selectedSize.name : null
sizeKeyOfNull(size) == NoSize
sizeKeyOf(size) == IF size # NoSize THEN Str(size.name) ELSE NoSize

\* const price = selectedSize ? selectedSize.price : currentItem.price
entryPriceBase(item, size) == item.price
entryPrice(item, size) == IF size # NoSize THEN size.price ELSE item.price

\* the selection toggleItemSelection leaves
toggleItemSelectionIncrement(sel, item, size) ==
    LET idx == findIndex(sel, item.name, sizeKeyOf(size))
    IN IF idx > 0 THEN [sel EXCEPT ![idx].quantity = @ + 1]
       ELSE Append(sel, [item |-> item, size |-> sizeKeyOf(size),
                         price |-> entryPrice(item, size), quantity |-> 1])
toggleItemSelection(sel, item, size) ==
    LET idx == findIndex(sel, item.name, sizeKeyOf(size))
    IN IF idx > 0 THEN splice(sel, idx)
       ELSE Append(sel, [item |-> item, size |-> sizeKeyOf(size),
                         price |-> entryPrice(item, size), quantity |-> 1])

\* the selection updateItemQuantity leaves
updateItemQuantityKeepZero(sel, name, size, delta) ==
    LET idx == findIndex(sel, name, size)
    IN IF idx = 0 THEN sel
       ELSE IF sel[idx].quantity + delta < 0 THEN splice(sel, idx)
       ELSE [sel EXCEPT ![idx].quantity = @ + delta]
updateItemQuantity(sel, name, size, delta) ==
    LET idx == findIndex(sel, name, size)
    IN IF idx = 0 THEN sel
       ELSE IF sel[idx].quantity + delta <= 0 THEN splice(sel, idx)
       ELSE [sel EXCEPT ![idx].quantity = @ + delta]

removeFromSelection(sel, name, size) ==
    LET idx == findIndex(sel, name, size)
    IN IF idx = 0 THEN sel ELSE splice(sel, idx)

\* data-size="${sel.size || ''}" on the panel's buttons, read back as
\* btn.dataset.size || null
dataSize(size)    == IF size = NoSize THEN "" ELSE size.v
sizeFromData(attr) == IF attr = "" THEN NoSize ELSE Str(attr)

\* the callback of selectedItems.reduce in showToWaiter
totalStepNoQuantity(sum, sel) == sum + sel.price
totalStep(sum, sel) == sum + (sel.price * sel.quantity)

RECURSIVE reduceTotal(_, _)
reduceTotal(sel, sum) ==
    IF sel = <<>> THEN sum ELSE reduceTotal(Tail(sel), totalStep(sum, Head(sel)))

\* const restaurantName = menuData?.name || 'Restaurant'
summaryName(md) == IF md.t # "null" /\ md.name # Undefined /\ md.name # ""
                   THEN md.name ELSE "Restaurant"

\* the text showToWaiter builds, by its parts
orderSummary(md, table, sel, via) ==
    [t |-> "summary", name |-> summaryName(md), table |-> table,
     lines |-> [i \in 1..Len(sel) |->
                  [quantity |-> sel[i].quantity, name |-> sel[i].item.name,
                   size |-> dataSize(sel[i].size),
                   price |-> sel[i].price * sel[i].quantity]],
     total |-> reduceTotal(sel, 0), via |-> via]

\* an operation on the selection, with the selection it found
CartOp(op, item, size, delta, before) ==
    [op |-> op, item |-> item, size |-> size, delta |-> delta, before |-> before]
OtherOp == CartOp("other", NoItem, NoSize, 0, <<>>)

\* the log keeps the last operation, and the one before it when that was a
\* select that appended an entry
logged(log, e) ==
    LET prev == IF log = <<>> THEN OtherOp ELSE log[Len(log)]
        keep == prev.op = "select" /\ findIndex(prev.before, prev.item.name, prev.size) = 0
    IN << (IF keep THEN prev ELSE OtherOp), e >>

\* what every selection handler ends with: updateSelectionUI() and renderMenuItems()
rerendered ==
    /\ shown' = renderMenuItems(menuData, activeCategory, searchQuery)
    /\ UNCHANGED <<currentRestaurantId, fsDocs, pc, storeOutcome, fetchLog, loadResult,
                   menuData, screen, tabs, activeCategory, searchQuery, escaped>>

\* app.js:570: if (item && item.available !== false)
cardOpensAny(item) == item # NoItem
cardOpens(item) == item # NoItem /\ item.available

\* click on a rendered card: the card carries the item's name, findItemByName looks it up
CardClick ==
    /\ pc = "shown"
    /\ \E k \in 1..Len(shown) :
         LET item == findItemByName(menuData, shown[k].item.name) IN
         /\ cardOpens(item)
         \* openProductModal(item)
         /\ currentItem' = item
         /\ selectedSize' = IF item.sizes # <<>> THEN item.sizes[1] ELSE NoSize
         /\ modalSelectBtn' = updateModalButton(isItemSelected(selectedItems, item.name))
         /\ clickedCard' = shown[k]
    /\ alertShown' = NoSummary
    /\ UNCHANGED <<selectedItems, tableNumber, cartLog>>
    /\ UNCHANGED <<dinerVars, ownerVars, editVars, typingVars, toolVars>>

\* click on a size option of the open modal
SizeClick ==
    /\ currentItem # NoItem
    /\ \E i \in 1..Len(currentItem.sizes) :
         /\ currentItem.sizes[i] # selectedSize
         /\ selectedSize' = currentItem.sizes[i]
    /\ alertShown' = NoSummary
    /\ UNCHANGED <<selectedItems, currentItem, clickedCard, tableNumber, modalSelectBtn, cartLog>>
    /\ UNCHANGED <<dinerVars, ownerVars, editVars, typingVars, toolVars>>

\* closeProductModal()
CloseModal ==
    /\ currentItem # NoItem
    /\ currentItem' = NoItem
    /\ selectedSize' = NoSize
    /\ clickedCard' = NoCard
    /\ alertShown' = NoSummary
    /\ UNCHANGED <<selectedItems, tableNumber, modalSelectBtn, cartLog>>
    /\ UNCHANGED <<dinerVars, ownerVars, editVars, typingVars, toolVars>>

\* click on the modal's select button: toggleItemSelection()
SelectClick ==
    /\ currentItem # NoItem
    /\ selectedItems' = toggleItemSelection(selectedItems, currentItem, selectedSize)
    /\ cartLog' = logged(cartLog, CartOp("select", currentItem, sizeKeyOf(selectedSize), 0,
                                         selectedItems))
    /\ rerendered
    \* closeProductModal()
    /\ currentItem' = NoItem
    /\ selectedSize' = NoSize
    /\ clickedCard' = NoCard
    /\ alertShown' = NoSummary
    /\ UNCHANGED <<tableNumber, modalSelectBtn>>
    /\ UNCHANGED <<ownerVars, editVars, typingVars, toolVars>>

\* click on the + or - button of a row of the selection panel
QuantityClick ==
    /\ \E k \in 1..Len(selectedItems), delta \in {1, -1} :
         LET sel  == selectedItems[k]
             size == sizeFromData(dataSize(sel.size))
         IN /\ delta = 1 => sel.quantity < MaxQuantity
            /\ selectedItems' = updateItemQuantity(selectedItems, sel.item.name, size, delta)
            /\ cartLog' = logged(cartLog, CartOp("adjust", sel.item, size, delta, selectedItems))
    /\ rerendered
    /\ alertShown' = NoSummary
    /\ UNCHANGED <<currentItem, selectedSize, clickedCard, tableNumber, modalSelectBtn>>
    /\ UNCHANGED <<ownerVars, editVars, typingVars, toolVars>>

\* click on the remove button of a row of the selection panel
RemoveClick ==
    /\ \E k \in 1..Len(selectedItems) :
         LET sel  == selectedItems[k]
             size == sizeFromData(dataSize(sel.size))
         IN /\ selectedItems' = removeFromSelection(selectedItems, sel.item.name, size)
            /\ cartLog' = logged(cartLog, CartOp("remove", sel.item, size, 0, selectedItems))
    /\ rerendered
    /\ alertShown' = NoSummary
    /\ UNCHANGED <<currentItem, selectedSize, clickedCard, tableNumber, modalSelectBtn>>
    /\ UNCHANGED <<ownerVars, editVars, typingVars, toolVars>>

\* clearSelection()
ClearClick ==
    /\ selectedItems' = <<>>
    /\ cartLog' = logged(cartLog, CartOp("clear", NoItem, NoSize, 0, selectedItems))
    /\ rerendered
    /\ alertShown' = NoSummary
    /\ UNCHANGED <<currentItem, selectedSize, clickedCard, tableNumber, modalSelectBtn>>
    /\ UNCHANGED <<ownerVars, editVars, typingVars, toolVars>>

\* showToWaiter(): the summary is built before the clipboard is tried; the
\* alert that follows carries it whatever the clipboard does
ClipboardOutcomes == {"unavailable", "resolved", "rejected"}

ShowToWaiter ==
    /\ selectedItems # <<>>
    /\ \E c \in ClipboardOutcomes :
         alertShown' = orderSummary(menuData, getTableNumber, selectedItems,
                                    IF c = "resolved" THEN "copied" ELSE "alert")
    /\ cartLog' = logged(cartLog, CartOp("show", NoItem, NoSize, 0, selectedItems))
    /\ UNCHANGED <<selectedItems, currentItem, selectedSize, clickedCard, tableNumber, modalSelectBtn>>
    /\ UNCHANGED <<dinerVars, ownerVars, editVars, typingVars, toolVars>>

(***************************************************************************)
(* The dashboard's mutations (owner/owner.js)                              *)
(***************************************************************************)
MaxEdits == 3          \* writes the dashboard issues in one run

EditCatIds == {"c1", "c2", "c3"}

CategoryPath(rid, cid) == <<"restaurants", rid, "categories", cid>>
OwnerPath(uid)         == <<"owners", uid>>

\* setDoc(..., {merge: true}) and updateDoc: the written fields replace the
\* document's, the others stay
Merge(doc, data) ==
    [f \in DOMAIN doc \cup DOMAIN data |-> IF f \in DOMAIN data THEN data[f] ELSE doc[f]]

\* a document as the dashboard's create handlers leave it
Stamped(doc, t) == Merge(doc, [createdAt |-> t, updatedAt |-> t])

\* the store the dashboard edits: restaurant r1 has item i1 in both of its
\* categories and item i2 in c1 only; owner u2 is not linked; restaurants/r2
\* has categories but no restaurant document
EditStore ==
    [owners      |-> [u1 |-> "r1", u2 |-> NoRid],
     restaurants |-> {"r1"},
     categories  |-> [r1 |-> [c \in {"c1", "c2"} |-> Stamped(NewCategoryDoc("r1", c), 0)],
                      r2 |-> [c \in {"c1"} |-> Stamped(NewCategoryDoc("r2", c), 0)]],
     items       |-> [p \in OwnerRids \X EditCatIds |->
                        IF p = <<"r1", "c1">>
                        THEN [i \in {"i1", "i2"} |-> Stamped(NewItemDoc("r1", "c1", i), 0)]
                        ELSE IF p = <<"r1", "c2">>
                        THEN [i \in {"i1"} |->
                                Stamped([NewItemDoc("r1", "c2", i) EXCEPT !.price = 275], 0)]
                        ELSE IF p = <<"r2", "c1">>
                        THEN [i \in {"i1"} |-> Stamped(NewItemDoc("r2", "c1", i), 0)]
                        ELSE EmptyMap]]

hasCategory(store, rid, cid) == rid \in DOMAIN store.categories /\ cid \in DOMAIN store.categories[rid]
hasItem(store, rid, cid, iid) ==
    <<rid, cid>> \in DOMAIN store.items /\ iid \in DOMAIN store.items[<<rid, cid>>]

\* the texts typed into a price field: a number, a malformed number, nothing,
\* a blank
PriceTexts == {"420", "4x", "", " "}

\* String.prototype.trim on those texts
trim(text) == IF text = " " THEN "" ELSE text

\* moneyToNumber on a price field's text: Number(String(value).trim()), null
\* unless finite; Number("") is 0
moneyToNumber(text) ==
    IF trim(text) = "420" THEN [finite |-> TRUE, num |-> 420]
    ELSE IF trim(text) = "" THEN [finite |-> TRUE, num |-> 0]
    ELSE [finite |-> FALSE, num |-> 0]

\* a write the dashboard issued: the handler, the call, the document path, the
\* value the owner entered, the fields written (serverTimestamp() resolved),
\* whether the document existed, whether the store accepted the write, and the
\* document afterwards
NoDoc == [absent |-> TRUE]
Write(by, op, path, input, data, existed, ok, after) ==
    [by |-> by, op |-> op, path |-> path, input |-> input, data |-> data,
     existed |-> existed, ok |-> ok, after |-> after]

\* the bookkeeping every issued write shares
issued(w) ==
    /\ Len(writeLog) < MaxEdits
    /\ writeLog' = Append(writeLog, w)
    /\ clock' = clock + 1

\* updateDoc on a category document; it rejects when the document is missing
updateCategory(by, rid, cid, input, data, rejects) ==
    LET path    == CategoryPath(rid, cid)
        existed == hasCategory(ownerStore, rid, cid)
        ok      == existed /\ ~rejects
        after   == IF existed THEN Merge(ownerStore.categories[rid][cid], data) ELSE NoDoc
    IN /\ issued(Write(by, "updateDoc", path, input, data, existed, ok,
                       IF ok THEN after
                       ELSE IF existed THEN ownerStore.categories[rid][cid] ELSE NoDoc))
       /\ IF ok
          THEN /\ ownerStore' = [ownerStore EXCEPT !.categories[rid][cid] = after]
               /\ subs' = markDirty(subs, "categories", rid, "")
          ELSE UNCHANGED <<ownerStore, subs>>

\* updateDoc on an item document
updateItem(by, rid, cid, iid, input, data, rejects) ==
    LET path    == ItemPath(rid, cid, iid)
        existed == hasItem(ownerStore, rid, cid, iid)
        ok      == existed /\ ~rejects
        after   == IF existed THEN Merge(ownerStore.items[<<rid, cid>>][iid], data) ELSE NoDoc
    IN /\ issued(Write(by, "updateDoc", path, input, data, existed, ok,
                       IF ok THEN after
                       ELSE IF existed THEN ownerStore.items[<<rid, cid>>][iid] ELSE NoDoc))
       /\ IF ok
          THEN /\ ownerStore' = [ownerStore EXCEPT !.items[<<rid, cid>>][iid] = after]
               /\ subs' = markDirty(subs, "items", rid, cid)
          ELSE UNCHANGED <<ownerStore, subs>>

\* setDoc on an item document (no merge: the document becomes the data)
setItem(by, rid, cid, iid, data, rejects) ==
    LET existed == hasItem(ownerStore, rid, cid, iid)
    IN /\ issued(Write(by, "setDoc", ItemPath(rid, cid, iid), data, data, existed, ~rejects,
                       IF ~rejects THEN data
                       ELSE IF existed THEN ownerStore.items[<<rid, cid>>][iid] ELSE NoDoc))
       /\ IF ~rejects
          THEN /\ ownerStore' = [ownerStore EXCEPT !.items[<<rid, cid>>] = Put(@, iid, data)]
               /\ subs' = markDirty(subs, "items", rid, cid)
          ELSE UNCHANGED <<ownerStore, subs>>

\* deleteDoc on an item document
deleteItem(by, rid, cid, iid, rejects) ==
    LET existed == hasItem(ownerStore, rid, cid, iid)
    IN /\ issued(Write(by, "deleteDoc", ItemPath(rid, cid, iid), EmptyMap, EmptyMap, existed,
                       ~rejects,
                       IF ~rejects \/ ~existed THEN NoDoc
                       ELSE ownerStore.items[<<rid, cid>>][iid]))
       /\ IF ~rejects /\ existed
          THEN /\ ownerStore' = [ownerStore EXCEPT !.items[<<rid, cid>>] = Without(@, {iid})]
               /\ subs' = markDirty(subs, "items", rid, cid)
          ELSE UNCHANGED <<ownerStore, subs>>

\* the handlers below leave the listener registry and the mirror alone
editOnlyOptimistic ==
    /\ lastEvent' = Event("other", {}, {}, {})
    /\ state' = [state EXCEPT !.itemsByCategory = EmptyMap]
    /\ UNCHANGED <<restaurantId, currentUser, restaurantUnsub, categoriesUnsub, itemsUnsubs,
                   setupShown, page, authUser, handlers, authEvents, nextSub,
                   storeWrites>>
    /\ UNCHANGED <<dinerVars, cartVars, typingVars, toolVars>>
editOnly ==
    /\ lastEvent' = Event("other", {}, {}, {})
    /\ UNCHANGED <<restaurantId, currentUser, restaurantUnsub, categoriesUnsub, itemsUnsubs,
                   state, setupShown, page, authUser, handlers, authEvents, nextSub,
                   storeWrites>>
    /\ UNCHANGED <<dinerVars, cartVars, typingVars, toolVars>>

\* the category card and the item row the owner works on in one run
EditedCat  == "c1"
EditedItem == "i1"

cardsOf(v, cid) == {k \in 1..Len(v.cards) : v.cards[k].id = cid}
rowsOf(card, iid) == {j \in 1..Len(card.items) : card.items[j].id = iid}

\* owner.js:272-275: the fields the enabled switch writes
toggleFieldsInverted(checked, now) == [enabled |-> ~checked, updatedAt |-> now]
toggleFields(checked, now) == [enabled |-> checked, updatedAt |-> now]

\* change event on a category's enabled switch
ToggleCategory ==
    /\ page = "dashboard"
    /\ restaurantId # NoRid
    /\ \E k \in cardsOf(view, EditedCat), rejects \in BOOLEAN :
         LET checked == ~view.cards[k].checked IN
         /\ view' = [view EXCEPT !.cards[k].checked = checked]
         /\ updateCategory("toggle", restaurantId, view.cards[k].id, checked,
                           toggleFields(checked, clock), rejects)
    /\ UNCHANGED <<mv, setup>>
    /\ editOnly

CategoryNameTexts == { <<"M", "o">> }

\* the debounced saveCategoryName runs
SaveCategoryName ==
    /\ page = "dashboard"
    /\ restaurantId # NoRid
    /\ \E k \in cardsOf(view, EditedCat), next \in CategoryNameTexts, rejects \in BOOLEAN :
         updateCategory("category-name", restaurantId, view.cards[k].id, next,
                        [name |-> next, updatedAt |-> clock], rejects)
    /\ UNCHANGED <<view, mv, setup>>
    /\ editOnly

\* what the item row's controls write: availability, type, name, price
ItemEdits(now) ==
    { [by |-> "item-available", input |-> FALSE,
       data |-> [available |-> FALSE, updatedAt |-> now]],
      [by |-> "item-type", input |-> "non-veg",
       data |-> [type |-> "non-veg", updatedAt |-> now]],
      [by |-> "item-name", input |-> <<"S", "o">>,
       data |-> [name |-> <<"S", "o">>, updatedAt |-> now]] }
    \cup { [by |-> "item-price", input |-> text,
            data |-> [price |-> moneyToNumber(text).num, updatedAt |-> now]] :
             text \in {x \in PriceTexts : moneyToNumber(x).finite} }

\* a control of an item row changes (the debounced saveName / savePrice runs)
SaveItem ==
    /\ page = "dashboard"
    /\ restaurantId # NoRid
    /\ \E k \in cardsOf(view, EditedCat), rejects \in BOOLEAN :
         \E j \in rowsOf(view.cards[k], EditedItem), e \in ItemEdits(clock) :
            updateItem(e.by, restaurantId, view.cards[k].id, view.cards[k].items[j].id,
                       e.input, e.data, rejects)
    /\ UNCHANGED <<view, mv, setup>>
    /\ editOnly

\* click on an item's delete button, confirmed
DeleteItem ==
    /\ page = "dashboard"
    /\ restaurantId # NoRid
    /\ \E k \in cardsOf(view, EditedCat), rejects \in BOOLEAN :
         \E j \in rowsOf(view.cards[k], EditedItem) :
            deleteItem("item-delete", restaurantId, view.cards[k].id,
                       view.cards[k].items[j].id, rejects)
    /\ UNCHANGED <<view, mv, setup>>
    /\ editOnly

\* submit of a category's inline add form: addDoc gives the item a new id
AddItem ==
    /\ page = "dashboard"
    /\ restaurantId # NoRid
    /\ \E k \in cardsOf(view, EditedCat), text \in PriceTexts, rejects \in BOOLEAN :
         LET cid  == view.cards[k].id
             val  == moneyToNumber(text)
             data == [name |-> <<"H", "a">>, price |-> val.num, type |-> "veg",
                      available |-> TRUE, createdAt |-> clock, updatedAt |-> clock]
         IN /\ val.finite
            /\ ~hasItem(ownerStore, restaurantId, cid, "i3")
            /\ issued(Write("item-add", "addDoc", ItemPath(restaurantId, cid, "i3"), text, data,
                            FALSE, ~rejects, IF rejects THEN NoDoc ELSE data))
            /\ IF rejects THEN UNCHANGED <<ownerStore, subs>>
               ELSE /\ ownerStore' = [ownerStore EXCEPT
                                        !.items[<<restaurantId, cid>>] = Put(@, "i3", data)]
                    /\ subs' = markDirty(subs, "items", restaurantId, cid)
    /\ UNCHANGED <<view, mv, setup>>
    /\ editOnly

\* click on the add-category button, a name entered at the prompt
AddCategory ==
    /\ page = "dashboard"
    /\ restaurantId # NoRid
    /\ \E rejects \in BOOLEAN :
         LET data == [name |-> <<"H", "a">>, enabled |-> TRUE,
                      createdAt |-> clock, updatedAt |-> clock]
         IN /\ ~hasCategory(ownerStore, restaurantId, "c3")
            /\ issued(Write("category-add", "addDoc", CategoryPath(restaurantId, "c3"), data, data,
                            FALSE, ~rejects, IF rejects THEN NoDoc ELSE data))
            /\ IF rejects THEN UNCHANGED <<ownerStore, subs>>
               ELSE /\ ownerStore' = [ownerStore EXCEPT
                                        !.categories[restaurantId] = Put(@, "c3", data)]
                    /\ subs' = markDirty(subs, "categories", restaurantId, "")
    /\ UNCHANGED <<view, mv, setup>>
    /\ editOnly

\* owner.js:449-453: the destination already holds a document of that id
destinationTakenNever(newSnap) == FALSE
destinationTaken(newSnap) == newSnap # NoDoc

\* getDoc on an item document: the snapshot's data, NoDoc when it does not exist
getItemDoc(store, rid, cid, iid) ==
    IF hasItem(store, rid, cid, iid) THEN store.items[<<rid, cid>>][iid] ELSE NoDoc

\* owner.js:455-456: { ...data, updatedAt: serverTimestamp() }
movedDataPicked(data, now) ==
    [name |-> data.name, price |-> data.price, available |-> data.available, updatedAt |-> now]
movedData(data, now) == Merge(data, [updatedAt |-> now])

Move(at, rid, from, item, to, data, taken, result, startLog, endLog, before) ==
    [pc |-> at, rid |-> rid, from |-> from, item |-> item, to |-> to, data |-> data,
     taken |-> taken, result |-> result, startLog |-> startLog, endLog |-> endLog,
     before |-> before, seen |-> NoDoc]

\* moveItem returns
returned(m, taken, result) ==
    [m EXCEPT !.pc = "done", !.taken = taken, !.result = result, !.endLog = Len(writeLog)]

moveOnly ==
    /\ UNCHANGED <<view, setup>>
    /\ editOnly

\* change event on an item's category select: moveItem up to its first await
MoveItemBegins ==
    /\ page = "dashboard"
    /\ mv.pc \in {"idle", "done"}
    /\ \E k \in cardsOf(view, EditedCat), k2 \in 1..Len(view.cards), confirmed \in BOOLEAN :
         \E j \in 1..Len(view.cards[k].items) :
            LET m == Move("getOld", restaurantId, view.cards[k].id, view.cards[k].items[j].id,
                          view.cards[k2].id, NoDoc, FALSE, FALSE, Len(writeLog), Len(writeLog),
                          ownerStore.items)
            IN /\ view.cards[k2].id # view.cards[k].id
               /\ mv' = IF restaurantId = NoRid \/ ~confirmed
                        THEN [m EXCEPT !.pc = "done"] ELSE m
    /\ UNCHANGED <<clock, writeLog, ownerStore, subs>>
    /\ moveOnly

\* await getDoc(oldRef) settles
MoveReadsSource ==
    /\ mv.pc = "getOld"
    /\ \E rejects \in BOOLEAN :
         LET oldSnap == getItemDoc(ownerStore, mv.rid, mv.from, mv.item)
         IN IF rejects \/ oldSnap = NoDoc
            THEN mv' = returned(mv, FALSE, FALSE)
            ELSE mv' = [mv EXCEPT !.pc = "getNew", !.data = oldSnap,
                                  !.seen = getItemDoc(ownerStore, mv.rid, mv.to, mv.item)]
    /\ UNCHANGED <<clock, writeLog, ownerStore, subs>>
    /\ moveOnly

\* owner.js:455-457: a rejected setDoc throws past deleteDoc into the catch
afterSetDocAlways(writeRejects) == "setDoc"
afterSetDoc(writeRejects) == IF writeRejects THEN "setFailed" ELSE "setDoc"

\* await getDoc(newRef) settles; if the destination is free, setDoc is called.
\* The store read the destination somewhere between the call (mv.seen) and now.
MoveReadsDestination ==
    /\ mv.pc = "getNew"
    /\ \E rejects, writeRejects \in BOOLEAN,
          newSnap \in {mv.seen, getItemDoc(ownerStore, mv.rid, mv.to, mv.item)} :
         LET taken == newSnap # NoDoc
         IN IF rejects
            THEN /\ mv' = returned(mv, FALSE, FALSE)
                 /\ UNCHANGED <<clock, writeLog, ownerStore, subs>>
            ELSE IF destinationTaken(newSnap)
            THEN /\ mv' = returned(mv, taken, FALSE)
                 /\ UNCHANGED <<clock, writeLog, ownerStore, subs>>
            ELSE /\ setItem("move", mv.rid, mv.to, mv.item, movedData(mv.data, clock),
                            writeRejects)
                 /\ mv' = [mv EXCEPT !.pc = afterSetDoc(writeRejects), !.taken = taken]
    /\ moveOnly

\* await setDoc(newRef, ...) settles; if it was accepted, deleteDoc is called
MoveWriteSettles ==
    /\ mv.pc \in {"setDoc", "setFailed"}
    /\ IF mv.pc = "setFailed"
       THEN /\ mv' = returned(mv, mv.taken, FALSE)
            /\ UNCHANGED <<clock, writeLog, ownerStore, subs>>
       ELSE \E rejects \in BOOLEAN :
               /\ deleteItem("move", mv.rid, mv.from, mv.item, rejects)
               /\ mv' = [mv EXCEPT !.pc = IF rejects THEN "deleteFailed" ELSE "deleteDoc"]
    /\ moveOnly

\* await deleteDoc(oldRef) settles
MoveDeleteSettles ==
    /\ mv.pc \in {"deleteDoc", "deleteFailed"}
    /\ mv' = returned(mv, mv.taken, mv.pc = "deleteDoc")
    /\ UNCHANGED <<clock, writeLog, ownerStore, subs>>
    /\ moveOnly

\* while a move is in flight, the owner edits or deletes the item being moved
EditsMovedItem ==
    /\ page = "dashboard"
    /\ restaurantId # NoRid
    /\ mv.pc \notin {"idle", "done"}
    /\ \/ \E e \in ItemEdits(clock) :
            /\ e.by = "item-price" /\ e.input = "420"
            /\ updateItem(e.by, restaurantId, mv.from, mv.item, e.input, e.data, FALSE)
       \/ deleteItem("item-delete", restaurantId, mv.from, mv.item, FALSE)
    /\ UNCHANGED <<view, mv, setup>>
    /\ editOnly

\* while a move is in flight, another client creates an item of the moved
\* item's id in the destination category
OtherClientCreatesAtDestination ==
    /\ page = "dashboard"
    /\ mv.pc \notin {"idle", "done"}
    /\ storeWrites < MaxStoreWrites
    /\ ~hasItem(ownerStore, mv.rid, mv.to, mv.item)
    /\ ownerStore' = [ownerStore EXCEPT !.items[<<mv.rid, mv.to>>] =
                         Put(@, mv.item, NewItemDoc(mv.rid, mv.to, mv.item))]
    /\ subs' = markDirty(subs, "items", mv.rid, mv.to)
    /\ storeWrites' = storeWrites + 1
    /\ lastEvent' = Event("other", {}, {}, {})
    /\ UNCHANGED <<restaurantId, currentUser, restaurantUnsub, categoriesUnsub, itemsUnsubs,
                   state, view, setupShown, page, authUser, handlers, authEvents, nextSub>>
    /\ UNCHANGED <<dinerVars, cartVars, editVars, typingVars, toolVars>>

(* the setup form (owner.js:825-847) *)
SetupIds   == {"r1", "r2"}
SetupNames == {"", "Cafe"}

Setup(at, nextId, nextName, rejected) ==
    [pc |-> at, nextId |-> nextId, nextName |-> nextName, rejected |-> rejected]

setupOnly ==
    /\ lastEvent' = Event("other", {}, {}, {})
    /\ UNCHANGED <<currentUser, itemsUnsubs, state, view, page, authUser, handlers,
                   authEvents, storeWrites, mv>>
    /\ UNCHANGED <<dinerVars, cartVars, typingVars, toolVars>>

\* click on the setup form's save button: up to the setDoc of ensureRestaurantDoc
SetupSave ==
    /\ page = "dashboard"
    /\ setupShown
    /\ currentUser # NoUser
    /\ setup.pc = "idle"
    /\ \E nextId \in SetupIds, nextName \in SetupNames, rejects \in BOOLEAN :
         /\ setup' = Setup("ensure", nextId, nextName, rejects)
         /\ IF nextName = ""                         \* ensureRestaurantDoc returns
            THEN /\ ~rejects
                 /\ UNCHANGED <<clock, writeLog, ownerStore, subs>>
            ELSE LET data == [id |-> nextId, name |-> nextName, updatedAt |-> clock]
                 IN /\ issued(Write("restaurant-ensure", "setDoc", RestaurantDocPath(nextId),
                                    nextName, data, nextId \in ownerStore.restaurants,
                                    ~rejects, IF rejects THEN NoDoc ELSE data))
                    /\ IF rejects THEN UNCHANGED <<ownerStore, subs>>
                       ELSE /\ ownerStore' = [ownerStore EXCEPT !.restaurants = @ \cup {nextId}]
                            /\ subs' = markDirty(subs, "restaurant", nextId, "")
    /\ UNCHANGED <<restaurantId, restaurantUnsub, categoriesUnsub, setupShown, nextSub>>
    /\ setupOnly

\* await ensureRestaurantDoc settles; linkOwnerToRestaurant calls setDoc
SetupEnsureSettles ==
    /\ setup.pc = "ensure"
    /\ IF setup.rejected \/ currentUser = NoUser     \* signed out meanwhile: user.uid throws
       THEN /\ setup' = Setup("idle", "", "", FALSE)           \* catch
            /\ UNCHANGED <<clock, writeLog, ownerStore, subs>>
       ELSE \E rejects \in BOOLEAN :
              LET data == [restaurantId |-> setup.nextId, email |-> "", updatedAt |-> clock]
              IN /\ setup' = [setup EXCEPT !.pc = "link", !.rejected = rejects]
                 /\ issued(Write("owner-link", "setDoc", OwnerPath(currentUser), setup.nextId,
                                 data, ownerStore.owners[currentUser] # NoRid, ~rejects,
                                 IF rejects THEN NoDoc ELSE data))
                 /\ IF rejects THEN UNCHANGED ownerStore
                    ELSE ownerStore' = [ownerStore EXCEPT !.owners[currentUser] = setup.nextId]
                 /\ UNCHANGED subs
    /\ UNCHANGED <<restaurantId, restaurantUnsub, categoriesUnsub, setupShown, nextSub>>
    /\ setupOnly

\* await linkOwnerToRestaurant settles: restaurantId = nextId; startRealtime()
SetupLinkSettles ==
    /\ setup.pc = "link"
    /\ setup' = Setup("idle", "", "", FALSE)
    /\ IF setup.rejected
       THEN UNCHANGED <<restaurantId, restaurantUnsub, categoriesUnsub, setupShown, nextSub, subs>>
       ELSE /\ nextSub + 1 <= MaxSubs
            /\ restaurantId' = setup.nextId
            /\ setupShown' = FALSE
            /\ restaurantUnsub' = nextSub
            /\ categoriesUnsub' = nextSub + 1
            /\ subs' = subs \cup { Listener(nextSub, "restaurant", setup.nextId, ""),
                                   Listener(nextSub + 1, "categories", setup.nextId, "") }
            /\ nextSub' = nextSub + 2
    /\ UNCHANGED <<clock, writeLog, ownerStore>>
    /\ setupOnly

NoMove  == Move("idle", NoRid, "", "", "", NoDoc, FALSE, FALSE, 0, 0, EmptyMap)
NoSetup == Setup("idle", "", "", FALSE)

(***************************************************************************)
(* Typing into a category's name field (owner/owner.js: debounce, render)  *)
(***************************************************************************)
MaxTime == 4           \* ticks the clock of the page advances in one run

\* owner.js:251: the wait of debounce(), 450 ms, in ticks of 225 ms
QuietPeriod == 2

\* the texts the owner leaves in the name field (none has outer whitespace, so
\* String(value).trim() returns them as they are)
TypedTexts == { <<>>, <<"M">>, <<"M", "o">> }

\* debounce (owner.js:59-65): the timer of this field's closure, if one is
\* pending, is cleared and a new one is set
debounce(ts, at, wait) ==
    {t \in ts : ~t.live} \cup {[due |-> at + wait, live |-> TRUE, value |-> NoText]}

\* the run of edits after one more edit: an edit that follows the previous one
\* by less than the quiet period continues the run, any other starts a new one
edited(b, text, at, log) ==
    IF b.n > 0 /\ at - b.last < QuietPeriod
    THEN [b EXCEPT !.n = 2, !.last = at, !.final = text]
    ELSE [n |-> 1, last |-> at, final |-> text, startLog |-> log]

typingOnly ==
    /\ lastEvent' = Event("other", {}, {}, {})
    /\ UNCHANGED <<restaurantId, currentUser, restaurantUnsub, categoriesUnsub, itemsUnsubs,
                   state, view, setupShown, page, authUser, handlers, authEvents, nextSub,
                   storeWrites, mv, setup>>
    /\ UNCHANGED <<dinerVars, cartVars, toolVars>>

\* input event on the name field of a category card (owner.js:253); timers that
\* are due run before the next key is handled
TypeCategoryName ==
    /\ page = "dashboard"
    /\ cardsOf(view, EditedCat) # {}
    /\ \A t \in timers : t.due > time
    /\ \E text \in TypedTexts :
         /\ text # typed
         /\ typed' = text
         /\ burst' = edited(burst, text, time, Len(writeLog))
    /\ timers' = debounce(timers, time, QuietPeriod)
    /\ UNCHANGED <<time, clock, writeLog, ownerStore, subs>>
    /\ typingOnly

\* a timer of debounce() runs saveCategoryName (owner.js:235-251), which reads
\* the field it was created for
TimerFires ==
    /\ page = "dashboard"
    /\ \E t \in timers :
         /\ t.due <= time
         /\ timers' = timers \ {t}
         /\ LET next == IF t.live THEN typed ELSE t.value IN
            IF restaurantId = NoRid \/ next = <<>>
            THEN UNCHANGED <<clock, writeLog, ownerStore, subs>>
            ELSE \E rejects \in BOOLEAN :
                   updateCategory("category-name", restaurantId, EditedCat, next,
                                  [name |-> next, updatedAt |-> clock], rejects)
    /\ UNCHANGED <<typed, time, burst>>
    /\ typingOnly

\* time passes; a timer that is due runs first
Tick ==
    /\ page = "dashboard"
    /\ time < MaxTime
    /\ \A t \in timers : t.due > time
    /\ time' = time + 1
    /\ UNCHANGED <<typed, timers, burst, clock, writeLog, ownerStore, subs>>
    /\ typingOnly

\* a delete of an item has been issued from the dashboard
deleteIssued == \E n \in 1..Len(writeLog) : writeLog[n].op = "deleteDoc"

\* input event on the name field of an item row (owner.js:613); the owner
\* types into the row before deleting it, not after
TypeItemName ==
    /\ page = "dashboard"
    /\ \E k \in cardsOf(view, EditedCat) : rowsOf(view.cards[k], EditedItem) # {}
    /\ ~deleteIssued
    /\ \A t \in timers : t.due > time
    /\ \E text \in TypedTexts :
         /\ text # typed
         /\ typed' = text
    /\ timers' = debounce(timers, time, QuietPeriod)
    /\ UNCHANGED <<time, burst, clock, writeLog, ownerStore, subs>>
    /\ typingOnly

\* a timer of debounce() runs the row's saveName (owner.js:587-598): itemRef()
\* is the document the row was built for
ItemTimerFires ==
    /\ page = "dashboard"
    /\ \E t \in timers :
         /\ t.due <= time
         /\ timers' = timers \ {t}
         /\ LET val == IF t.live THEN typed ELSE t.value IN
            IF restaurantId = NoRid \/ val = <<>>
            THEN UNCHANGED <<clock, writeLog, ownerStore, subs>>
            ELSE \E rejects \in BOOLEAN :
                   updateItem("item-name", restaurantId, EditedCat, EditedItem, val,
                              [name |-> val, updatedAt |-> clock], rejects)
    /\ UNCHANGED <<typed, time, burst>>
    /\ typingOnly

(***************************************************************************)
(* The page address (js/app.js: getRestaurantIdFromUrl)                    *)
(***************************************************************************)
\* URLSearchParams.get of a parameter the query does not have
NoParam == "null"

\* the values of a query parameter, decoded: absent, empty, a blank, an id
ParamValues(id) == {NoParam, "", " ", id}

\* url.hash without its "#": empty when the address has no fragment
HashValues == {"", "h1"}

\* url.pathname as its "/" separators and the texts between them
PathNames ==
    { << "/" >>,
      << "/", "index.html" >>,
      << "/", "DineQR", "/" >>,
      << "/", "DineQR", "/", "index.html" >>,
      << "/", "DineQR", "/", "/", "index.html" >>,
      << "/", "DineQR", "/", "spice", "/" >>,
      << "/", "DineQR", "/", "public", "/", "index.html" >> }

Locations ==
    [r : ParamValues("q1"), restaurant : ParamValues("q2"), hash : HashValues,
     pathname : PathNames]

\* a || b
orElse(a, b) == IF a # NoParam /\ a # "" THEN a ELSE b

\* url.pathname.split('/').filter(Boolean)
pathParts(pathname) == SelectSeq(pathname, LAMBDA x : x # "/")

\* app.js:88-106
getRestaurantIdFromUrl(loc) ==
    LET fromQuery == trim(orElse(orElse(loc.r, loc.restaurant), ""))
        fromHash  == trim(loc.hash)
        parts     == pathParts(loc.pathname)
    IN IF fromQuery # "" THEN fromQuery
       ELSE IF fromHash # "" THEN fromHash
       ELSE IF Len(parts) >= 2 /\ parts[2] # "" /\ parts[2] # "index.html" THEN parts[2]
       ELSE DEFAULT_RESTAURANT

\* init() up to loadMenu (app.js:888-895): the restaurant id is read from the
\* address
InitReadsAddress ==
    /\ pc = "init"
    /\ currentRestaurantId' = getRestaurantIdFromUrl(location)
    /\ pc' = "getDoc"
    /\ UNCHANGED <<fsDocs, storeOutcome, fetchLog, loadResult, menuData, screen, tabs, shown,
                   activeCategory, searchQuery, escaped>>
    /\ UNCHANGED <<ownerVars, cartVars, editVars, typingVars, toolVars>>

(***************************************************************************)
(* The migration tool (tools/migrate-json-to-firestore.mjs)                *)
(***************************************************************************)
MaxRuns == 2           \* times the tool is run on the same files

\* JSON values of mixed type: a number, or a string
Num(n)  == [t |-> "num", n |-> n, s |-> ""]
Text(s) == [t |-> "str", n |-> 0, s |-> s]
Null    == [t |-> "null", n |-> 0, s |-> ""]

\* a field of a JSON object, or a default when the object has no such field
has(o, f) == f \in DOMAIN o
field(o, f, default) == IF has(o, f) THEN o[f] ELSE default

Alnum == {"a", "b", "c", "d", "e", "f", "g", "h", "i", "j", "k", "l", "m", "n", "o", "p",
          "q", "r", "s", "t", "u", "v", "w", "x", "y", "z",
          "0", "1", "2", "3", "4", "5", "6", "7", "8", "9"}

Digits == <<"0", "1", "2", "3", "4", "5", "6", "7", "8", "9">>

\* a number as the text a template literal gives it
RECURSIVE numberText(_)
numberText(n) ==
    IF n < 10 THEN << Digits[n + 1] >>
    ELSE numberText(n \div 10) \o << Digits[(n % 10) + 1] >>

\* String.prototype.trim on a character sequence
RECURSIVE trimStart(_)
trimStart(s) == IF s # <<>> /\ Head(s) = " " THEN trimStart(Tail(s)) ELSE s
RECURSIVE trimEnd(_)
trimEnd(s) == IF s # <<>> /\ s[Len(s)] = " " THEN trimEnd(SubSeq(s, 1, Len(s) - 1)) ELSE s

\* .replace(/&/g, "and")
RECURSIVE replaceAmp(_)
replaceAmp(s) ==
    IF s = <<>> THEN <<>>
    ELSE (IF Head(s) = "&" THEN <<"a", "n", "d">> ELSE << Head(s) >>) \o replaceAmp(Tail(s))

\* .replace(/[^a-z0-9]+/g, "-")
RECURSIVE dropOthers(_)
dropOthers(s) == IF s # <<>> /\ Head(s) \notin Alnum THEN dropOthers(Tail(s)) ELSE s
RECURSIVE dashRuns(_)
dashRuns(s) ==
    IF s = <<>> THEN <<>>
    ELSE IF Head(s) \in Alnum THEN << Head(s) >> \o dashRuns(Tail(s))
    ELSE << "-" >> \o dashRuns(dropOthers(s))

\* .replace(/(^-|-$)/g, "")
stripDashes(s) ==
    LET a == IF s # <<>> /\ Head(s) = "-" THEN Tail(s) ELSE s
    IN IF a # <<>> /\ a[Len(a)] = "-" THEN SubSeq(a, 1, Len(a) - 1) ELSE a

\* migrate-json-to-firestore.mjs:38-46
slugify(input) ==
    LET slug == stripDashes(dashRuns(replaceAmp(toLowerCase(trimEnd(trimStart(input))))))
        cut  == SubSeq(slug, 1, IF Len(slug) < 80 THEN Len(slug) ELSE 80)
    IN IF cut = <<>> THEN <<"u", "n", "t", "i", "t", "l", "e", "d">> ELSE cut

\* Number() of the texts the menus hold
toNumber(text) ==
    IF text = "" THEN [finite |-> TRUE, n |-> 0]
    ELSE IF text = "90" THEN [finite |-> TRUE, n |-> 90]
    ELSE [finite |-> FALSE, n |-> 0]

\* migrate-json-to-firestore.mjs:48-51; value is a field's value, or absent
\* (undefined): String(value || "") is "" for undefined, "" and 0
safeNumber(o, f) ==
    IF has(o, f) /\ o[f].t = "num" THEN Num(o[f].n)
    ELSE LET text == trim(IF has(o, f) /\ o[f].t = "str" THEN o[f].s ELSE "")
         IN IF toNumber(text).finite THEN Num(toNumber(text).n) ELSE Null

\* Math.min(...ns) of a non-empty list
minOf(ns) == CHOOSE m \in {ns[k] : k \in DOMAIN ns} : \A k \in DOMAIN ns : m <= ns[k]

\* Array.isArray(x) ? x : otherwise, for a field holding List(v)
listOr(o, f) == IF has(o, f) /\ o[f].t = "list" THEN o[f].v ELSE <<>>

\* migrate-json-to-firestore.mjs:127-135
itemPrice(item) ==
    LET price  == safeNumber(item, "price")
        sizes  == listOr(item, "sizes")
        all    == [k \in DOMAIN sizes |-> safeNumber(sizes[k], "price")]
        finite == SelectSeq(all, LAMBDA p : p # Null)
    IN IF price = Null /\ sizes # <<>> /\ finite # <<>>
       THEN Num(minOf([k \in DOMAIN finite |-> finite[k].n]))
       ELSE price

\* name || fallback
nameOr(o, fallback) == IF has(o, "name") /\ o.name # <<>> THEN o.name ELSE fallback

categoryNameOf(cat, c) == nameOr(cat, <<"C", "a", "t", "e", "g", "o", "r", "y", " ">> \o numberText(c))
itemNameOf(item, i)    == nameOr(item, <<"I", "t", "e", "m", " ">> \o numberText(i))

\* migrate-json-to-firestore.mjs:125: `${itemIdBase}-${i}`, i counted from 0
itemIdStamped(base, i) == base \o << "-" >> \o numberText(mig.time)
itemIdOf(base, i) == base \o << "-" >> \o numberText(i)

\* the documents the tool writes (serverTimestamp() resolved)
restaurantDocOf(rid, data, at) ==
    LET restaurant == field(data, "restaurant", EmptyMap)
    IN [id |-> rid,
        name |-> IF has(restaurant, "name") /\ restaurant.name # <<>>
                 THEN restaurant.name ELSE rid,
        tagline |-> field(restaurant, "tagline", ""),
        logoUrl |-> field(restaurant, "logoUrl", ""),
        address |-> field(restaurant, "address", ""),
        phone |-> field(restaurant, "phone", ""),
        openHours |-> IF field(restaurant, "openHours", "") # ""
                      THEN restaurant.openHours ELSE field(restaurant, "hours", ""),
        currency |-> field(data, "currency", ""),
        updatedAt |-> at]

categoryDocOf(cat, c, at) ==
    [name |-> categoryNameOf(cat, c),
     enabled |-> field(cat, "enabled", TRUE) # FALSE,
     sortOrder |-> c - 1,
     updatedAt |-> at]

itemDocOf(item, i, at) ==
    [name |-> itemNameOf(item, i),
     description |-> field(item, "description", ""),
     price |-> itemPrice(item),
     sizes |-> IF has(item, "sizes") /\ item.sizes.t = "list" THEN item.sizes ELSE Null,
     type |-> field(item, "type", ""),
     tags |-> listOr(item, "tags"),
     image |-> field(item, "image", ""),
     available |-> field(item, "available", TRUE) # FALSE,
     sortOrder |-> i - 1,
     updatedAt |-> at]

MigCategoryPath(rid, cid)  == <<"restaurants", rid, "categories", cid>>
MigItemPath(rid, cid, iid) == <<"restaurants", rid, "categories", cid, "items", iid>>

\* doc(path).set(data, {merge: true})
setMerge(store, path, data) ==
    Put(store, path, IF path \in DOMAIN store THEN Merge(store[path], data) ELSE data)

\* the directories under restaurants/, in the order readdirSync lists them
RestaurantDirs == <<"ajwa", "gogrill">>

\* existsSync(menuPath) is false
NoFile == [missing |-> TRUE]

NoWrite == [none |-> TRUE]
Migration(at, run, r, c, i, stamp, completed, first, last) ==
    [pc |-> at, run |-> run, r |-> r, c |-> c, i |-> i, time |-> stamp,
     completed |-> completed, first |-> first, last |-> last]

categoriesAt(r) ==
    LET data == menuFiles[RestaurantDirs[r]]
    IN IF data = NoFile THEN <<>> ELSE listOr(data, "categories")
itemsAt(r, c) == listOr(categoriesAt(r)[c], "items")

\* main() returns: every directory has been migrated
finished(m, store) ==
    [m EXCEPT !.pc = "done", !.completed = m.completed + 1,
              !.first = IF m.completed = 0 THEN store ELSE m.first]

\* where the loops of main() and migrateRestaurant go next
nextRestaurant(m, store) ==
    IF m.r < Len(RestaurantDirs)
    THEN [m EXCEPT !.pc = "restaurant", !.r = m.r + 1, !.c = 0, !.i = 0]
    ELSE finished(m, store)
nextCategory(m, store) ==
    IF m.c < Len(categoriesAt(m.r))
    THEN [m EXCEPT !.pc = "category", !.c = m.c + 1, !.i = 0]
    ELSE nextRestaurant(m, store)
nextItem(m, store) ==
    IF m.i < Len(itemsAt(m.r, m.c))
    THEN [m EXCEPT !.pc = "item", !.i = m.i + 1]
    ELSE nextCategory(m, store)

\* a set() rejects: main().catch logs the error and the process ends
failed(m) == [m EXCEPT !.pc = "failed"]

migOnly ==
    /\ UNCHANGED <<location, menuFiles>>
    /\ UNCHANGED <<dinerVars, ownerVars, cartVars, editVars, typingVars>>

\* migrateRestaurant up to the set() of the restaurant document, or its return
\* when the directory has no menu.json
SetRestaurant ==
    /\ mig.pc = "restaurant"
    /\ LET rid  == RestaurantDirs[mig.r]
           data == menuFiles[rid]
       IN IF data = NoFile
          THEN /\ mig' = nextRestaurant(mig, migStore)
               /\ UNCHANGED migStore
          ELSE \E rejects \in BOOLEAN :
                 IF rejects
                 THEN mig' = failed(mig) /\ UNCHANGED migStore
                 ELSE /\ migStore' = setMerge(migStore, RestaurantDocPath(rid),
                                               restaurantDocOf(rid, data, mig.time))
                      /\ mig' = nextCategory([mig EXCEPT !.time = @ + 1], migStore')
    /\ migOnly

\* the set() of a category document
SetCategory ==
    /\ mig.pc = "category"
    /\ LET rid == RestaurantDirs[mig.r]
           cat == categoriesAt(mig.r)[mig.c]
           cid == slugify(categoryNameOf(cat, mig.c))
       IN \E rejects \in BOOLEAN :
            IF rejects
            THEN mig' = failed(mig) /\ UNCHANGED migStore
            ELSE /\ migStore' = setMerge(migStore, MigCategoryPath(rid, cid),
                                          categoryDocOf(cat, mig.c, mig.time))
                 /\ mig' = nextItem([mig EXCEPT !.time = @ + 1], migStore')
    /\ migOnly

\* the set() of an item document
SetItem ==
    /\ mig.pc = "item"
    /\ LET rid  == RestaurantDirs[mig.r]
           cat  == categoriesAt(mig.r)[mig.c]
           cid  == slugify(categoryNameOf(cat, mig.c))
           item == itemsAt(mig.r, mig.c)[mig.i]
           iid  == itemIdOf(slugify(itemNameOf(item, mig.i)), mig.i - 1)
           data == itemDocOf(item, mig.i, mig.time)
       IN \E rejects \in BOOLEAN :
            IF rejects
            THEN mig' = failed(mig) /\ UNCHANGED migStore
            ELSE /\ migStore' = setMerge(migStore, MigItemPath(rid, cid, iid), data)
                 /\ mig' = nextItem([mig EXCEPT !.time = @ + 1,
                                                !.last = [item |-> item, data |-> data]],
                                    migStore')
    /\ migOnly

\* the tool is run again on the same files
RunsAgain ==
    /\ mig.pc \in {"done", "failed"}
    /\ mig.run < MaxRuns
    /\ mig' = [mig EXCEPT !.pc = "restaurant", !.run = @ + 1, !.r = 1, !.c = 0, !.i = 0]
    /\ UNCHANGED migStore
    /\ migOnly

(* the menu.json files the tool is run on *)
Momo    == <<"M", "o", "m", "o">>
ChaiBun == <<"C", "h", "a", "i", " ", "&", " ", "B", "o", "n">>
Soups   == <<"S", "o", "u", "p", "s">>

HalfFull == List(<< [name |-> "Half", price |-> Num(180)], [name |-> "Full", price |-> Num(300)] >>)

MenuItems ==
    { [name |-> Momo, price |-> Num(120)],
      [name |-> Momo, sizes |-> HalfFull],
      [name |-> Momo, price |-> Text("abc"),
       sizes |-> List(<< [name |-> "Half", price |-> Num(180)],
                         [name |-> "Cup", price |-> Text("90")] >>)],
      [name |-> ChaiBun, price |-> Text("90"), available |-> FALSE],
      [sizes |-> List(<<>>)],
      [name |-> Momo, price |-> Text("abc"), sizes |-> List(<< [name |-> "Half"] >>)] }

MenuFile(categories) ==
    [currency |-> "INR", restaurant |-> [name |-> <<"A", "j", "w", "a">>, hours |-> "10-23"],
     categories |-> List(categories)]

Menus ==
    { MenuFile(<< [name |-> Soups, items |-> List(<< it >>)] >>) : it \in MenuItems }
    \cup { MenuFile(<< [name |-> Soups, items |-> List(<< it, [name |-> Momo, price |-> Num(120)] >>)] >>) :
             it \in MenuItems }
    \cup { MenuFile(<< [name |-> Soups, items |-> List(<< [name |-> Momo, sizes |-> HalfFull] >>)],
                       [name |-> <<"s", "o", "u", "p", "s", "!">>, enabled |-> FALSE,
                        items |-> List(<< [name |-> Momo, price |-> Num(120)] >>)] >>),
             MenuFile(<< [items |-> List(<<>>)], [name |-> Soups] >>),
             [restaurant |-> EmptyMap] }

(***************************************************************************)
(* Specifications                                                          *)
(***************************************************************************)
DinerIdle ==
    /\ currentRestaurantId = DEFAULT_RESTAURANT
    /\ fsDocs = {}
    /\ pc = "idle"
    /\ storeOutcome = "pending"
    /\ fetchLog = <<>>
    /\ loadResult = NoResult
    /\ menuData = NullDoc
    /\ screen = "loading"
    /\ tabs = <<>>
    /\ shown = <<>>
    /\ activeCategory = All
    /\ searchQuery = <<>>
    /\ escaped = FALSE

OwnerLoaded(link2) ==
    /\ restaurantId = NoRid
    /\ currentUser = NoUser
    /\ restaurantUnsub = NoSub
    /\ categoriesUnsub = NoSub
    /\ itemsUnsubs = EmptyMap
    /\ state = [categories |-> EmptyMap, itemsByCategory |-> EmptyMap]
    /\ view = [title |-> "", cards |-> <<>>]
    /\ setupShown = FALSE
    /\ page = "dashboard"
    /\ authUser = NoUser
    /\ handlers = {}
    /\ authEvents = 0
    /\ subs = {}
    /\ nextSub = 1
    /\ ownerStore = InitialStore(link2)
    /\ storeWrites = 0
    /\ lastEvent = Event("load", {}, {}, {})

CartIdle ==
    /\ selectedItems = <<>>
    /\ currentItem = NoItem
    /\ selectedSize = NoSize
    /\ clickedCard = NoCard
    /\ tableNumber = ""
    /\ modalSelectBtn = ""
    /\ alertShown = NoSummary
    /\ cartLog = <<>>

EditIdle ==
    /\ clock = 1
    /\ writeLog = <<>>
    /\ mv = NoMove
    /\ setup = NoSetup

\* nothing typed, no timer pending
NoBurst == [n |-> 0, last |-> 0, final |-> NoText, startLog |-> 0]
TypingIdle ==
    /\ typed = NoText
    /\ timers = {}
    /\ time = 0
    /\ burst = NoBurst

\* the diner page opened at its plain address
PlainLocation == [r |-> NoParam, restaurant |-> NoParam, hash |-> "", pathname |-> "/"]
\* the tool not run: no menu files, an empty store
NoMigration == Migration("done", 0, 0, 0, 0, 0, 0, EmptyMap, NoWrite)
MigrationIdle ==
    /\ menuFiles = [d \in {} |-> NoFile]
    /\ migStore = EmptyMap
    /\ mig = NoMigration

ToolIdle ==
    /\ location = PlainLocation
    /\ MigrationIdle

\* the diner page at the first await of init(): loading shown, getDoc in flight
InitDiner ==
    /\ currentRestaurantId \in RestaurantIds
    /\ fsDocs \in SUBSET StorePaths(currentRestaurantId)
    /\ pc = "getDoc"
    /\ storeOutcome = "pending"
    /\ fetchLog = <<>>
    /\ loadResult = NoResult
    /\ menuData = NullDoc
    /\ screen = "loading"
    /\ tabs = <<>>
    /\ shown = <<>>
    /\ activeCategory = All
    /\ searchQuery = <<>>
    /\ escaped = FALSE
    /\ OwnerLoaded("r2")
    /\ page = "dashboard"
    /\ CartIdle
    /\ EditIdle
    /\ TypingIdle
    /\ ToolIdle

NextDiner == \/ GetDocSettles \/ GetDocsSettles \/ FetchSettles
             \/ CategoryTabClick \/ SearchInput

SpecDiner == InitDiner /\ [][NextDiner]_vars

\* the dashboard page when initDashboardPage has returned
InitOwner ==
    /\ DinerIdle
    /\ \E link2 \in {"r2", NoRid} : OwnerLoaded(link2)
    /\ CartIdle
    /\ EditIdle
    /\ TypingIdle
    /\ ToolIdle

NextOwner == \/ AuthStateChanged \/ ResolveSettles
             \/ RestaurantSnapshot \/ CategoriesSnapshot \/ ItemsSnapshot
             \/ StoreWriteCategory \/ StoreWriteItem \/ Unload

SpecOwner == InitOwner /\ [][NextOwner]_vars

\* the diner page once init() has shown a menu.json of the documented layout
InitCart ==
    /\ \E menu \in CartMenus :
         /\ menuData = menu
         /\ loadResult = [src |-> "static", doc |-> menu]
         /\ tabs = renderCategories(categoriesOrEmpty(menu).v)
         /\ shown = renderMenuItems(menu, All, <<>>)
    /\ currentRestaurantId = "spice-garden"
    /\ fsDocs = {}
    /\ pc = "shown"
    /\ storeOutcome = "absent"
    /\ fetchLog = << [path |-> 1, outcome |-> "json-ok"] >>
    /\ screen = "menu"
    /\ activeCategory = All
    /\ searchQuery = <<>>
    /\ escaped = FALSE
    /\ OwnerLoaded("r2")
    /\ EditIdle
    /\ TypingIdle
    /\ ToolIdle
    /\ selectedItems = <<>>
    /\ currentItem = NoItem
    /\ selectedSize = NoSize
    /\ clickedCard = NoCard
    /\ tableNumber \in TableNumbers
    /\ modalSelectBtn = ""
    /\ alertShown = NoSummary
    /\ cartLog = <<>>

NextCart == \/ CardClick \/ SizeClick \/ CloseModal \/ SelectClick
            \/ QuantityClick \/ RemoveClick \/ ClearClick \/ ShowToWaiter

SpecCart == InitCart /\ [][NextCart]_vars

\* the dashboard of owner u1 when startRealtime() has returned
EditStarted ==
    /\ restaurantId = "r1"
    /\ currentUser = "u1"
    /\ authUser = "u1"
    /\ restaurantUnsub = 1
    /\ categoriesUnsub = 2
    /\ itemsUnsubs = EmptyMap
    /\ state = [categories |-> EmptyMap, itemsByCategory |-> EmptyMap]
    /\ view = [title |-> "", cards |-> <<>>]
    /\ setupShown = FALSE
    /\ subs = { Listener(1, "restaurant", "r1", ""), Listener(2, "categories", "r1", "") }
    /\ nextSub = 3

\* the dashboard of owner u2, who has no restaurant linked: the setup form is shown
EditUnlinked ==
    /\ restaurantId = NoRid
    /\ currentUser = "u2"
    /\ authUser = "u2"
    /\ restaurantUnsub = NoSub
    /\ categoriesUnsub = NoSub
    /\ itemsUnsubs = EmptyMap
    /\ state = [categories |-> EmptyMap, itemsByCategory |-> EmptyMap]
    /\ view = showSetup([title |-> "", cards |-> <<>>])
    /\ setupShown = TRUE
    /\ subs = {}
    /\ nextSub = 1

EditCommon ==
    /\ DinerIdle
    /\ CartIdle
    /\ EditIdle
    /\ TypingIdle
    /\ ToolIdle
    /\ page = "dashboard"
    /\ handlers = {}
    /\ authEvents = 1
    /\ ownerStore = EditStore
    /\ storeWrites = 0
    /\ lastEvent = Event("load", {}, {}, {})


\* the dashboard of owner u1 with every first snapshot delivered
EditSynced ==
    LET st == [categories |-> EditStore.categories["r1"],
               itemsByCategory |-> [c \in {"c1", "c2"} |-> EditStore.items[<<"r1", c>>]]]
        order == sortedIds(st.categories, {"c1", "c2"})
        handle == [c \in {"c1", "c2"} |-> 2 + CHOOSE k \in 1..2 : order[k] = c]
    IN /\ restaurantId = "r1"
       /\ currentUser = "u1"
       /\ authUser = "u1"
       /\ restaurantUnsub = 1
       /\ categoriesUnsub = 2
       /\ itemsUnsubs = handle
       /\ state = st
       /\ view = [title |-> "r1", cards |-> renderView(st)]
       /\ setupShown = FALSE
       /\ subs = { [Listener(1, "restaurant", "r1", "") EXCEPT !.dirty = FALSE],
                   [Listener(2, "categories", "r1", "") EXCEPT !.dirty = FALSE] }
                 \cup { [Listener(handle[c], "items", "r1", c) EXCEPT !.dirty = FALSE] :
                          c \in {"c1", "c2"} }
       /\ nextSub = 5

\* the dashboard as the owner finds it: synced, or asking to link a restaurant
InitEdit == EditCommon /\ (EditSynced \/ EditUnlinked)

NextEdit == \/ RestaurantSnapshot \/ CategoriesSnapshot \/ ItemsSnapshot
            \/ ToggleCategory \/ SaveCategoryName \/ SaveItem \/ DeleteItem
            \/ AddItem \/ AddCategory
            \/ SetupSave \/ SetupEnsureSettles \/ SetupLinkSettles

SpecEdit == InitEdit /\ [][NextEdit]_vars

\* moveItem's steps, interleaved with an edit of the item being moved
InitMove == EditCommon /\ EditSynced

NextMove == \/ MoveItemBegins \/ MoveReadsSource \/ MoveReadsDestination
            \/ MoveWriteSettles \/ MoveDeleteSettles
            \/ EditsMovedItem \/ ItemsSnapshot

SpecMove == InitMove /\ [][NextMove]_vars

\* moveItem's steps while another client writes to the destination
NextRace == \/ MoveItemBegins \/ MoveReadsSource \/ MoveReadsDestination
            \/ MoveWriteSettles \/ MoveDeleteSettles
            \/ OtherClientCreatesAtDestination \/ ItemsSnapshot

SpecRace == InitMove /\ [][NextRace]_vars

\* the dashboard right after startRealtime(): the owner works the enabled switch
\* and the name field of a category while the first snapshots arrive
InitToggle == EditCommon /\ EditStarted

NextToggle == \/ RestaurantSnapshot \/ CategoriesSnapshot \/ ItemsSnapshot
              \/ ToggleCategory \/ SaveCategoryName

SpecToggle == InitToggle /\ [][NextToggle]_vars

\* the dashboard right after startRealtime(): the owner types into a category's
\* name field while the first snapshots arrive
InitTyping == EditCommon /\ EditStarted

NextTyping == \/ CategoriesSnapshot \/ ItemsSnapshot
              \/ TypeCategoryName \/ TimerFires \/ Tick

SpecTyping == InitTyping /\ [][NextTyping]_vars

\* the owner renames an item and deletes it while the rename is pending
InitCancel == EditCommon /\ EditSynced

NextCancel == \/ TypeItemName \/ ItemTimerFires \/ Tick
              \/ DeleteItem \/ ItemsSnapshot

SpecCancel == InitCancel /\ [][NextCancel]_vars

\* the writes the store rejected before the run starts
rejectedRename ==
    Write("category-name", "updateDoc", CategoryPath("r1", EditedCat), <<"M", "o">>,
          [name |-> <<"M", "o">>, updatedAt |-> 1], TRUE, FALSE,
          EditStore.categories["r1"][EditedCat])
rejectedEnsure ==
    Write("restaurant-ensure", "setDoc", RestaurantDocPath("r2"), "Cafe",
          [id |-> "r2", name |-> "Cafe", updatedAt |-> 1], FALSE, FALSE, NoDoc)

\* the dashboard after one write that the store rejected: a rename of a
\* category on the synced dashboard, or a first attempt of the setup form
InitMirror ==
    /\ DinerIdle
    /\ CartIdle
    /\ TypingIdle
    /\ ToolIdle
    /\ page = "dashboard"
    /\ handlers = {}
    /\ authEvents = 1
    /\ ownerStore = EditStore
    /\ storeWrites = 0
    /\ lastEvent = Event("other", {}, {}, {})
    /\ clock = 2
    /\ mv = NoMove
    /\ setup = NoSetup
    /\ \/ EditSynced /\ writeLog = <<rejectedRename>>
       \/ EditUnlinked /\ writeLog = <<rejectedEnsure>>

\* every handler that writes, and the snapshot callbacks
NextMirror == \/ CategoriesSnapshot \/ ItemsSnapshot
              \/ ToggleCategory \/ SaveCategoryName \/ SaveItem \/ DeleteItem
              \/ AddItem \/ AddCategory
              \/ MoveItemBegins \/ MoveReadsSource \/ MoveReadsDestination
              \/ MoveWriteSettles \/ MoveDeleteSettles
              \/ SetupSave \/ SetupEnsureSettles \/ SetupLinkSettles

SpecMirror == InitMirror /\ [][NextMirror]_vars

\* the snapshots of a dashboard that has just subscribed, or that is synced,
\* delivered in any order, with renders in between and a client changing
\* the menu
InitDelivery == EditCommon /\ (EditStarted \/ EditSynced)

NextDelivery == \/ RestaurantSnapshot \/ CategoriesSnapshot \/ ItemsSnapshot \/ Render
                \/ StoreWriteCategory \/ StoreWriteItem

SpecDelivery == InitDelivery /\ [][NextDelivery]_vars

\* the diner page opened at some address, before init() has run
InitUrl ==
    /\ location \in Locations
    /\ currentRestaurantId = ""
    /\ fsDocs = {}
    /\ pc = "init"
    /\ storeOutcome = "pending"
    /\ fetchLog = <<>>
    /\ loadResult = NoResult
    /\ menuData = NullDoc
    /\ screen = "loading"
    /\ tabs = <<>>
    /\ shown = <<>>
    /\ activeCategory = All
    /\ searchQuery = <<>>
    /\ escaped = FALSE
    /\ OwnerLoaded("r2")
    /\ CartIdle
    /\ EditIdle
    /\ TypingIdle
    /\ MigrationIdle

NextUrl == InitReadsAddress \/ GetDocSettles

SpecUrl == InitUrl /\ [][NextUrl]_vars

\* the tool started on an empty store: main() at its first directory
InitMigrate ==
    /\ menuFiles \in { [d \in {"ajwa", "gogrill"} |-> IF d = "ajwa" THEN m ELSE g] :
                          m \in Menus,
                          g \in {NoFile, MenuFile(<< [name |-> Soups, items |-> List(<< [name |-> Momo, price |-> Num(120)] >>)] >>)} }
    /\ migStore = EmptyMap
    /\ mig = Migration("restaurant", 1, 1, 0, 0, 1, 0, EmptyMap, NoWrite)
    /\ location = PlainLocation
    /\ DinerIdle
    /\ OwnerLoaded("r2")
    /\ CartIdle
    /\ EditIdle
    /\ TypingIdle

NextMigrate == SetRestaurant \/ SetCategory \/ SetItem \/ RunsAgain

SpecMigrate == InitMigrate /\ [][NextMigrate]_vars

\* the dashboard while the signed-in identity changes: the auth handler, the
\* setup form and the add-category button
InitIdentity == InitEdit

NextIdentity == \/ AuthStateChanged \/ ResolveSettles
                \/ AddCategory
                \/ SetupSave \/ SetupEnsureSettles \/ SetupLinkSettles

SpecIdentity == InitIdentity /\ [][NextIdentity]_vars

(***************************************************************************)
(* Properties                                                              *)
(***************************************************************************)
categoriesOf(md) == IF md.categories.t = "list" THEN md.categories.v ELSE <<>>

hasItemNamed(md, name) ==
    \E k \in 1..Len(categoriesOf(md)) :
       \E j \in 1..Len(categoriesOf(md)[k].items) : categoriesOf(md)[k].items[j].name = name

builtinFor(rid) == IF rid \in {"ajwa", "gogrill"} THEN fallbackMenus[rid]
                   ELSE fallbackMenus[DEFAULT_RESTAURANT]

allFetchesFailed ==
    /\ Len(fetchLog) = NumPaths
    /\ \A i \in 1..NumPaths : fetchLog[i].outcome \in {"network-error", "http-error"}

\* C1: when the store has no record for the identifier (or the lookup fails) and
\* every static candidate fetch fails, loadMenu returns the built-in fallback
\* document - the identifier's own for ajwa and gogrill, the default one's for
\* every other identifier - and nothing is thrown.
C1_FallbackForEveryIdentifier ==
    (pc = "shown" /\ storeOutcome \in {"absent", "error"} /\ allFetchesFailed)
        => /\ loadResult.doc = builtinFor(currentRestaurantId)
           /\ ~escaped

\* C2: whatever the sources answer, init() ends with the menu shown, menuData a
\* document with a categories list, the error state not entered and no
\* exception escaping.
C2_InitAlwaysShowsAMenu ==
    /\ screen # "error"
    /\ ~escaped
    /\ pc = "shown" => /\ screen = "menu"
                       /\ menuData.t = "object"
                       /\ menuData.categories.t = "list"

\* C3: the static candidates are fetched in list order, and the first one that
\* is fetched successfully and parses is the last one fetched: no fetch follows
\* a success, and loadMenu returns that candidate's document.
C3_FirstParsedCandidateWins ==
    /\ Len(fetchLog) <= NumPaths
    /\ \A i \in 1..Len(fetchLog) :
          /\ fetchLog[i].path = i
          /\ fetchLog[i].outcome \in {"json-ok", "text-ok"}
                => /\ i = Len(fetchLog)
                   /\ pc = "shown"
                   /\ loadResult.src = "static"
    /\ loadResult.src = "static"
          => /\ fetchLog # <<>>
             /\ fetchLog[Len(fetchLog)].outcome \in {"json-ok", "text-ok"}

\* first candidate fails, second succeeds: exactly two fetches
C3_Witness ==
    /\ pc = "shown"
    /\ Len(fetchLog) = 2
    /\ fetchLog[1].outcome = "http-error"
    /\ fetchLog[2].outcome = "text-ok"
    /\ loadResult.src = "static"

recordExistsButNoItems ==
    /\ RestaurantDocPath(currentRestaurantId) \in fsDocs
    /\ \A iid \in {"m1", "m2"} : MenuItemPath(currentRestaurantId, iid) \notin fsDocs

\* C4: when the restaurant record exists but the lookup finds no items, the
\* store result counts as a failure: the first static candidate is fetched and
\* the document loadMenu returns is never the (empty) store document.
C4_EmptyStoreFallsThrough ==
    (recordExistsButNoItems /\ pc = "shown")
        => /\ loadResult.src \in {"static", "builtin"}
           /\ loadResult.doc.origin # "firestore"
           /\ fetchLog # <<>>

C4_Witness ==
    /\ recordExistsButNoItems
    /\ storeOutcome = "empty"
    /\ pc = "shown"
    /\ loadResult.src = "static"
    /\ Len(fetchLog) = 1

\* C5: for a restaurant whose record exists, every item stored at
\* restaurants/{id}/categories/{categoryId}/items/{itemId} appears in the
\* document the resolver returns (the store lookup itself not failing).
C5_NestedItemsAppear ==
    (/\ pc = "shown"
     /\ storeOutcome # "error"
     /\ RestaurantDocPath(currentRestaurantId) \in fsDocs
     /\ ItemPath(currentRestaurantId, "starters", "tikka-0") \in fsDocs)
        => hasItemNamed(loadResult.doc, Tikka.name)

\* C6: a category whose enabled flag is false is never shown to the diner:
\* neither its tab nor any of its items is rendered, for every active category
\* and every search query.
C6_DisabledCategoryHidden ==
    screen = "menu" =>
       \A k \in 1..Len(categoriesOf(menuData)) :
          LET c == categoriesOf(menuData)[k] IN
          ~c.enabled =>
             /\ \A t \in 1..Len(tabs) : tabs[t] # c.name
             /\ \A j \in 1..Len(shown) : shown[j].categoryName # c.name

itemListeners == {l \in subs : l.kind = "items"}

\* C7: in the Synced state, when a categories snapshot callback has run, the
\* categories with an active items listener are exactly the categories of the
\* mirror, each with exactly one listener, the one itemsUnsubs holds for it.
C7_OneItemsListenerPerCategory ==
    (lastEvent.op = "categories" /\ restaurantId # NoRid)
        => /\ {l.cat : l \in itemListeners} = DOMAIN state.categories
           /\ DOMAIN itemsUnsubs = DOMAIN state.categories
           /\ \A c \in DOMAIN state.categories :
                 {l.id : l \in {x \in itemListeners : x.cat = c}} = {itemsUnsubs[c]}

\* a later snapshot holds a category the mirror already had: no listener is created
C7_Witness ==
    /\ lastEvent.op = "categories"
    /\ restaurantId # NoRid
    /\ lastEvent.created = {}
    /\ DOMAIN state.categories # {}
    /\ Cardinality(itemListeners) = Cardinality(DOMAIN state.categories)

\* C8: no items listener and no mirrored items remain for a category that is
\* not in the latest categories snapshot, and the callback that dropped a
\* category rendered the page without it.
C8_NoOrphanedCategoryState ==
    /\ \A l \in itemListeners : l.cat \in DOMAIN state.categories
    /\ DOMAIN itemsUnsubs \subseteq DOMAIN state.categories
    /\ DOMAIN state.itemsByCategory \subseteq DOMAIN state.categories
    /\ lastEvent.op = "categories" =>
          \A c \in lastEvent.removed :
             /\ c \notin DOMAIN state.categories
             /\ restaurantId # NoRid
                   => \A k \in 1..Len(view.cards) : view.cards[k].id # c

\* a category whose items were mirrored has just been dropped
C8_Witness ==
    /\ lastEvent.op = "categories"
    /\ lastEvent.forgot # {}
    /\ restaurantId # NoRid
    /\ \A c \in lastEvent.forgot : c \notin DOMAIN state.itemsByCategory
    /\ DOMAIN state.categories # {}

\* C9: at no time are two restaurant or two categories listeners active.
C9_NoOverlappingListenerSets ==
    /\ Cardinality({l \in subs : l.kind = "restaurant"}) <= 1
    /\ Cardinality({l \in subs : l.kind = "categories"}) <= 1

\* C10: once a sign-out has been handled no listener is active, and none is
\* established until the next sign-in.
C10_NoListenersAfterSignOut ==
    (authEvents > 0 /\ authUser = NoUser) => subs = {}


(***************************************************************************)
(* The diner's selection                                                   *)
(***************************************************************************)
lastOp == IF cartLog = <<>> THEN OtherOp ELSE cartLog[Len(cartLog)]

\* the entries of a selection that belong to the key (item, size)
entriesFor(sel, item, size) == {i \in 1..Len(sel) : sel[i].item = item /\ sel[i].size = size}

\* the price the menu gives the key (item, size)
menuPrice(item, size) ==
    IF size = NoSize THEN item.price
    ELSE LET i == CHOOSE j \in 1..Len(item.sizes) : item.sizes[j].name = size.v
         IN item.sizes[i].price

\* C13: selecting an item whose (item, chosen size) key has no entry appends
\* exactly one entry, with quantity 1 and the chosen size's price (the item's
\* base price when no size is chosen), and leaves the other entries as they were.
C13_SelectAppendsOneEntry ==
    (lastOp.op = "select" /\ entriesFor(lastOp.before, lastOp.item, lastOp.size) = {})
    => selectedItems = Append(lastOp.before,
                              [item |-> lastOp.item, size |-> lastOp.size,
                               price |-> menuPrice(lastOp.item, lastOp.size),
                               quantity |-> 1])

C13_Witness ==
    /\ lastOp.op = "select"
    /\ lastOp.before # <<>>
    /\ lastOp.size = Str("Full")
    /\ entriesFor(lastOp.before, lastOp.item, lastOp.size) = {}
    /\ Len(selectedItems) = Len(lastOp.before) + 1

\* C14: selecting an item whose (item, chosen size) key has an entry removes
\* that entry whatever its quantity, and selecting the same key twice from a
\* selection without it leaves the selection as it was before the first select.
C14_SelectToggles ==
    /\ (lastOp.op = "select" /\ entriesFor(lastOp.before, lastOp.item, lastOp.size) # {})
       => /\ entriesFor(selectedItems, lastOp.item, lastOp.size) = {}
          /\ \E i \in entriesFor(lastOp.before, lastOp.item, lastOp.size) :
               selectedItems = splice(lastOp.before, i)
    /\ (/\ Len(cartLog) = 2
        /\ cartLog[1].op = "select" /\ cartLog[2].op = "select"
        /\ cartLog[1].item = cartLog[2].item /\ cartLog[1].size = cartLog[2].size
        /\ entriesFor(cartLog[1].before, cartLog[1].item, cartLog[1].size) = {})
       => selectedItems = cartLog[1].before

C14_Witness ==
    /\ Len(cartLog) = 2
    /\ cartLog[1].op = "select" /\ cartLog[2].op = "select"
    /\ cartLog[1].item = cartLog[2].item /\ cartLog[1].size = cartLog[2].size
    /\ entriesFor(cartLog[1].before, cartLog[1].item, cartLog[1].size) = {}
    /\ cartLog[1].before # <<>>
    /\ selectedItems = cartLog[1].before

\* C15: every entry of the selection has quantity at least 1 and no two
\* entries have the same (item, size) key.
C15_QuantitiesPositiveKeysUnique ==
    /\ \A i \in 1..Len(selectedItems) : selectedItems[i].quantity >= 1
    /\ \A i, j \in 1..Len(selectedItems) :
         (selectedItems[i].item = selectedItems[j].item
          /\ selectedItems[i].size = selectedItems[j].size) => i = j

\* an entry of quantity 1 was decreased, and is gone
C15_Witness ==
    /\ lastOp.op = "adjust" /\ lastOp.delta = -1
    /\ \E i \in entriesFor(lastOp.before, lastOp.item, lastOp.size) :
         lastOp.before[i].quantity = 1
    /\ entriesFor(selectedItems, lastOp.item, lastOp.size) = {}
    /\ selectedItems # <<>>

RECURSIVE sumOver(_, _)
sumOver(sel, idx) ==
    IF idx = {} THEN 0
    ELSE LET i == CHOOSE j \in idx : TRUE
         IN sel[i].price * sel[i].quantity + sumOver(sel, idx \ {i})

\* C16: the total show-to-waiter presents is the sum over the selection's
\* entries of unit price times quantity.
C16_TotalIsSumOfLines ==
    (lastOp.op = "show" /\ alertShown # NoSummary)
    => alertShown.total = sumOver(selectedItems, DOMAIN selectedItems)

C16_Witness ==
    /\ lastOp.op = "show" /\ alertShown # NoSummary
    /\ Len(selectedItems) >= 2
    /\ \E i \in DOMAIN selectedItems : selectedItems[i].quantity >= 2

\* C17: the order summary show-to-waiter produces for a non-empty selection
\* carries the restaurant's display name, one line per entry and the total,
\* and is shown to the diner whether or not the clipboard copy succeeds.
C17_SummaryCarriesRestaurantName ==
    lastOp.op = "show"
    => /\ alertShown # NoSummary
       /\ alertShown.name = menuData.restaurant.name
       /\ Len(alertShown.lines) = Len(selectedItems)

\* C18: two distinct menu items have distinct selection keys: the modal a
\* card opens shows that card's item, and selecting it touches no entry of
\* another item.
C18_CardOpensItsOwnItem ==
    (currentItem # NoItem /\ clickedCard # NoCard) => currentItem = clickedCard.item

(***************************************************************************)
(* The dashboard's mutations                                               *)
(***************************************************************************)
\* the writes the moveItem call issued, and the writes other handlers issued
\* while it ran
moveWrites  == {i \in (mv.startLog + 1)..Len(writeLog) : writeLog[i].by = "move"}
otherWrites == {i \in (mv.startLog + 1)..Len(writeLog) : writeLog[i].by # "move"}

\* two documents that agree on every field but the update timestamp
sameButStamp(a, b) ==
    /\ DOMAIN a = DOMAIN b
    /\ \A f \in DOMAIN a \ {"updatedAt"} : a[f] = b[f]

\* C11: moveItem from category A to category B, when B already holds an item
\* of the same identifier, returns false and issues neither a write nor a
\* delete; the source item and B's item are as they were.
C11_MoveToTakenDestinationFails ==
    (mv.pc = "done" /\ mv.taken)
    => /\ mv.result = FALSE
       /\ moveWrites = {}
       /\ otherWrites = {}
          => /\ hasItem(ownerStore, mv.rid, mv.from, mv.item)
             /\ ownerStore.items[<<mv.rid, mv.from>>] = mv.before[<<mv.rid, mv.from>>]
             /\ ownerStore.items[<<mv.rid, mv.to>>] = mv.before[<<mv.rid, mv.to>>]

C11_Witness ==
    /\ mv.pc = "done" /\ mv.taken /\ ~mv.result
    /\ otherWrites = {}
    /\ hasItem(ownerStore, mv.rid, mv.from, mv.item)
    /\ hasItem(ownerStore, mv.rid, mv.to, mv.item)
    /\ ownerStore.items[<<mv.rid, mv.from>>][mv.item]
         # ownerStore.items[<<mv.rid, mv.to>>][mv.item]

\* C12: when moveItem between two different categories returns true, the
\* destination holds an item of the same identifier with the field values the
\* source had, apart from the update timestamp, and the source no longer holds it.
C12_MovePreservesIdAndFields ==
    (mv.pc = "done" /\ mv.result /\ mv.from # mv.to)
    => /\ \E i, j \in moveWrites :
            /\ i < j
            /\ writeLog[i].op = "setDoc" /\ writeLog[i].ok
            /\ writeLog[i].path = ItemPath(mv.rid, mv.to, mv.item)
            /\ sameButStamp(writeLog[i].data, mv.data)
            /\ writeLog[j].op = "deleteDoc" /\ writeLog[j].ok
            /\ writeLog[j].path = ItemPath(mv.rid, mv.from, mv.item)
       /\ otherWrites = {}
          => /\ hasItem(ownerStore, mv.rid, mv.to, mv.item)
             /\ sameButStamp(ownerStore.items[<<mv.rid, mv.to>>][mv.item],
                             mv.before[<<mv.rid, mv.from>>][mv.item])
             /\ ~hasItem(ownerStore, mv.rid, mv.from, mv.item)

C12_Witness ==
    /\ mv.pc = "done" /\ mv.result /\ mv.from # mv.to
    /\ otherWrites = {}
    /\ hasItem(ownerStore, mv.rid, mv.to, mv.item)
    /\ ownerStore.items[<<mv.rid, mv.to>>][mv.item].updatedAt
         # mv.before[<<mv.rid, mv.from>>][mv.item].updatedAt

\* the accepted writes of the enabled switch
toggleWrites == {i \in 1..Len(writeLog) : writeLog[i].by = "toggle" /\ writeLog[i].ok}

\* no accepted write to the document of write i between writes i and j
undisturbed(i, j) ==
    \A k \in (i + 1)..(j - 1) : ~(writeLog[k].ok /\ writeLog[k].path = writeLog[i].path)

C20_WritesAreStamped ==
    \A i \in 1..Len(writeLog) :
       LET w == writeLog[i] IN
       w.op # "deleteDoc"
       => /\ "updatedAt" \in DOMAIN w.data
          /\ (w.op \in {"setDoc", "addDoc"} /\ ~w.existed /\ w.by # "owner-link")
             => "createdAt" \in DOMAIN w.data

\* C21: a price field left empty, blank or holding a text that is not a finite
\* number produces no write: no item is created or repriced from such a text.
C21_MalformedPriceRejected ==
    \A i \in 1..Len(writeLog) :
       writeLog[i].by \in {"item-price", "item-add"}
       => trim(writeLog[i].input) \notin {"", "4x"}

(***************************************************************************)
(* Typing                                                                  *)
(***************************************************************************)
\* the run of edits is over: the quiet period has passed since its last edit
\* and no timer is pending
burstOver == burst.n > 0 /\ time - burst.last >= QuietPeriod /\ timers = {}

\* the writes of the name field issued since the run of edits began
burstWrites == {i \in (burst.startLog + 1)..Len(writeLog) : writeLog[i].by = "category-name"}

\* C22: a run of edits to a category's name, each less than the quiet period
\* after the one before, ends in exactly one write, which carries the last
\* text, also when render() ran during the run.
C22_BurstIsOneWrite ==
    (burstOver /\ burst.final # <<>>)
    => /\ Cardinality(burstWrites) = 1
       /\ \A i \in burstWrites : writeLog[i].input = burst.final

(***************************************************************************)
(* The setup form                                                          *)
(***************************************************************************)
\* the dashboard left the setup screen: the click handler linked the owner to
\* the restaurant it now shows
syncedBySetup ==
    /\ restaurantId # NoRid
    /\ ~setupShown
    /\ \E i \in 1..Len(writeLog) :
         /\ writeLog[i].by = "owner-link" /\ writeLog[i].ok
         /\ writeLog[i].input = restaurantId

\* C23: when the dashboard has left the setup screen for the menu, the store
\* holds a restaurant record for the linked id and the owner record points to
\* it, whatever was entered as the name.
C23_SetupLeavesRestaurantRecord ==
    syncedBySetup
    => /\ restaurantId \in ownerStore.restaurants
       /\ ownerStore.owners[currentUser] = restaurantId

(***************************************************************************)
(* The page address                                                        *)
(***************************************************************************)
\* a level of the address gives no identifier: absent, empty or blank
blank(v) == v = NoParam \/ trim(v) = ""

\* the second segment of the path, unless it is the page's file name
pathSegment(loc) ==
    LET parts == pathParts(loc.pathname)
    IN IF Len(parts) >= 2 /\ parts[2] # "index.html" THEN parts[2] ELSE NoParam

\* the first level of the address, in the order r, restaurant, fragment, path,
\* that gives an identifier
byPriority(loc) ==
    IF ~blank(loc.r) THEN trim(loc.r)
    ELSE IF ~blank(loc.restaurant) THEN trim(loc.restaurant)
    ELSE IF ~blank(loc.hash) THEN trim(loc.hash)
    ELSE IF ~blank(pathSegment(loc)) THEN pathSegment(loc)
    ELSE DEFAULT_RESTAURANT

\* C24: the restaurant id is the first of r, restaurant, the fragment and the
\* path segment that is not empty or blank, and the default id when none is.
C24_IdByPriority ==
    pc # "init" => currentRestaurantId = byPriority(location)

\* the address names the page's file, in whatever directory the site is served
\* from
namesPageFile(loc) ==
    LET parts == pathParts(loc.pathname)
    IN parts # <<>> /\ parts[Len(parts)] = "index.html"

\* C25: an address with no r, no restaurant parameter and no fragment gives
\* the default restaurant, whatever the path the page is served from (here:
\* for the addresses that name the page's file).
C25_NoIdGivesDefault ==
    (/\ pc # "init"
     /\ location.r = NoParam /\ location.restaurant = NoParam /\ location.hash = ""
     /\ namesPageFile(location))
    => currentRestaurantId = DEFAULT_RESTAURANT

(***************************************************************************)
(* The migration tool                                                      *)
(***************************************************************************)
\* the prices of an item's sizes that are finite numbers
sizePricesOf(item) ==
    LET sizes == listOr(item, "sizes")
    IN {safeNumber(sizes[k], "price").n :
          k \in {j \in DOMAIN sizes : /\ has(sizes[j], "price")
                                       /\ safeNumber(sizes[j], "price") # Null}}

\* C26: an item of menu.json that has no price field and has sizes with a
\* finite price is stored with the least of these prices as its price.
C26_FlatPriceIsLeastSizePrice ==
    (/\ mig.last # NoWrite
     /\ ~has(mig.last.item, "price")
     /\ sizePricesOf(mig.last.item) # {})
    => /\ mig.last.data.price.t = "num"
       /\ mig.last.data.price.n \in sizePricesOf(mig.last.item)
       /\ \A n \in sizePricesOf(mig.last.item) : mig.last.data.price.n <= n

\* a document without its update timestamp
unstamped(doc) == [f \in DOMAIN doc \ {"updatedAt"} |-> doc[f]]

\* C27: a second complete run on the same files leaves the documents of the
\* first run, with the same fields apart from the update timestamp, and no
\* other document.
C27_SecondRunChangesNothing ==
    (mig.pc = "done" /\ mig.completed >= 2)
    => /\ DOMAIN migStore = DOMAIN mig.first
       /\ \A path \in DOMAIN migStore : unstamped(migStore[path]) = unstamped(mig.first[path])

C27_Witness ==
    /\ mig.pc = "done" /\ mig.completed >= 2
    /\ \E path \in DOMAIN migStore :
         /\ Len(path) = 6
         /\ migStore[path].updatedAt # mig.first[path].updatedAt
    /\ \E path \in DOMAIN migStore : Len(path) = 4

(***************************************************************************)
(* Moving an item: failures and other writers                              *)
(***************************************************************************)
\* the item moveItem was called on was in its source category at the call
movedItemExisted ==
    /\ mv.pc # "idle"
    /\ <<mv.rid, mv.from>> \in DOMAIN mv.before
    /\ mv.item \in DOMAIN mv.before[<<mv.rid, mv.from>>]

\* C28: from the call of moveItem on, whichever store call fails and wherever
\* the handler stops, the item is in the source category or in the destination
\* category as long as no other handler writes: it may be in both, never in
\* neither.
C28_MoveNeverLosesItem ==
    (movedItemExisted /\ otherWrites = {})
    => \/ hasItem(ownerStore, mv.rid, mv.from, mv.item)
       \/ hasItem(ownerStore, mv.rid, mv.to, mv.item)

C28_Witness ==
    /\ movedItemExisted /\ otherWrites = {}
    /\ mv.pc = "done" /\ ~mv.taken /\ ~mv.result
    /\ hasItem(ownerStore, mv.rid, mv.from, mv.item)
    /\ hasItem(ownerStore, mv.rid, mv.to, mv.item)
    /\ \E i \in moveWrites : writeLog[i].op = "deleteDoc" /\ ~writeLog[i].ok

\* the setDoc calls of moveItem that the store accepted
moveCopies(from) ==
    {i \in from..Len(writeLog) :
       writeLog[i].by = "move" /\ writeLog[i].op = "setDoc" /\ writeLog[i].ok}

\* C29 as stated: moveItem never writes over an item that is at the
\* destination, also when another client created it between moveItem's
\* existence check and its write.
C29_MoveNeverOverwrites ==
    \A i \in moveCopies(1) : ~writeLog[i].existed

\* C29 as amended: moveItem writes to the destination only when its existence
\* check found no item there, and it writes over an item only if another
\* client has written to the store.
C29_MoveSparesItemItSaw ==
    /\ \A i \in moveCopies(mv.startLog + 1) : ~mv.taken
    /\ storeWrites = 0 => \A i \in moveCopies(1) : ~writeLog[i].existed

C29_Witness ==
    /\ storeWrites > 0
    /\ ~mv.taken
    /\ \E i \in moveCopies(mv.startLog + 1) : writeLog[i].existed

(***************************************************************************)
(* The mirror after an identity change                                     *)
(***************************************************************************)
\* every active listener is on the restaurant the dashboard is linked to
listenersOnCurrent == \A l \in subs : l.rid = restaurantId

\* C30: what the categories callback renders for the linked restaurant holds
\* no item mirrored from another restaurant: every item row shown is an item
\* document of the linked restaurant (the documents of the two restaurants
\* differ in name and price).
C30_NoItemsOfPreviousRestaurant ==
    (lastEvent.op = "categories" /\ restaurantId # NoRid /\ listenersOnCurrent)
    => \A k \in 1..Len(view.cards) : \A j \in 1..Len(view.cards[k].items) :
          LET row == view.cards[k].items[j]
              doc == NewItemDoc(restaurantId, view.cards[k].id, row.id)
          IN row.name = doc.name /\ row.price = doc.price

\* the writes of the setup form's save handler
setupWrites == {"restaurant-ensure", "owner-link"}

\* C31: while the setup screen is shown the dashboard holds no restaurant
\* id, and no handler but the setup form's own issues a store write.
C31_UnlinkedIssuesNoWrite ==
    [][ (page = "dashboard" /\ setupShown)
          => /\ restaurantId = NoRid
             /\ \A n \in (Len(writeLog) + 1)..Len(writeLog') :
                   writeLog'[n].by \in setupWrites ]_vars

\* the store holds the restaurant's record and at least one of its menu items
recordExistsWithItems ==
    /\ RestaurantDocPath(currentRestaurantId) \in fsDocs
    /\ \E iid \in {"m1", "m2"} : MenuItemPath(currentRestaurantId, iid) \in fsDocs

candidateFailed(i) == fetchLog[i].outcome \notin {"json-ok", "text-ok"}

\* C32: when the store lookup answers with the record and at least one item,
\* loadMenu returns the store's document and fetches no static candidate; a
\* static candidate is fetched only after the store lookup failed or found
\* nothing; the built-in menu is returned only after every static candidate
\* was fetched and failed.
C32_SourcesTriedInOrder ==
    /\ (pc = "shown" /\ recordExistsWithItems /\ storeOutcome # "error")
          => /\ loadResult.src = "firestore"
             /\ loadResult.doc = firestoreMenu(fsDocs, currentRestaurantId)
             /\ fetchLog = <<>>
    /\ fetchLog # <<>> => storeOutcome \in {"error", "absent", "empty"}
    /\ loadResult.src = "builtin"
          => /\ Len(fetchLog) = NumPaths
             /\ \A i \in 1..NumPaths : candidateFailed(i)

\* the store answered with items and the page shows them
C32_Witness ==
    /\ pc = "shown"
    /\ recordExistsWithItems
    /\ storeOutcome = "found"
    /\ loadResult.src = "firestore"
    /\ fetchLog = <<>>

\* the i-th fetched candidate is the one loadMenu returned
returnedCandidate(i) == i = Len(fetchLog) /\ loadResult.src = "static"

\* C33: a static candidate is the one returned exactly when its response is
\* successful and its body parses, with or without a JSON content-type; after
\* a successful response whose body does not parse the loop goes on to the
\* next candidate.
C33_AcceptedIffOkAndParses ==
    \A i \in 1..Len(fetchLog) :
       LET o == fetchLog[i].outcome IN
       /\ (i < Len(fetchLog) \/ pc = "shown")
             => (returnedCandidate(i) <=> (resOk(o) /\ bodyParses(o)))
       /\ (resOk(o) /\ ~bodyParses(o) /\ i < NumPaths)
             => (i < Len(fetchLog) \/ pc = "fetch")

\* a candidate declared as text whose body does not parse is skipped, and
\* the next one, declared as text too, is returned
C33_Witness ==
    /\ pc = "shown"
    /\ Len(fetchLog) = 2
    /\ fetchLog[1].outcome = "text-unparseable"
    /\ fetchLog[2].outcome = "text-ok"
    /\ loadResult.src = "static"

\* two entries that differ in quantity at most
sameButQuantity(a, b) == a.item = b.item /\ a.size = b.size /\ a.price = b.price

\* C34: every entry for an item with sizes carries the name of one of that
\* item's sizes and that size's price; every entry for an item without sizes
\* carries no size and the item's base price; adjusting a quantity changes no
\* entry's item, size or unit price (it only removes the entry that reaches 0).
C34_EntriesCarrySizeAndPrice ==
    /\ \A i \in 1..Len(selectedItems) :
          LET e == selectedItems[i] IN
          IF e.item.sizes # <<>>
          THEN /\ e.size # NoSize
               /\ \E j \in 1..Len(e.item.sizes) :
                     e.item.sizes[j].name = e.size.v /\ e.item.sizes[j].price = e.price
          ELSE e.size = NoSize /\ e.price = e.item.price
    /\ lastOp.op = "adjust"
          => \/ /\ Len(selectedItems) = Len(lastOp.before)
                /\ \A i \in 1..Len(selectedItems) :
                      sameButQuantity(selectedItems[i], lastOp.before[i])
             \/ \E i \in 1..Len(lastOp.before) : selectedItems = splice(lastOp.before, i)

\* an entry for the second size and an entry for an item without sizes, the
\* sized one just raised to quantity 2
C34_Witness ==
    /\ lastOp.op = "adjust" /\ lastOp.delta = 1
    /\ lastOp.size = Str("Full")
    /\ \E i, j \in 1..Len(selectedItems) :
          /\ selectedItems[i].size = Str("Full") /\ selectedItems[i].quantity = 2
          /\ selectedItems[j].size = NoSize

\* the n-th write follows an accepted delete of the document it targets
afterDelete(n) ==
    \E d \in 1..(n - 1) :
       /\ writeLog[d].op = "deleteDoc" /\ writeLog[d].ok
       /\ writeLog[d].path = writeLog[n].path

\* C35: a debounced rename that is pending when its item is deleted is
\* cancelled: no rename is issued for an item after its delete.
C35_DeleteCancelsPendingWrite ==
    \A n \in 1..Len(writeLog) : writeLog[n].by = "item-name" => ~afterDelete(n)

\* this step is a snapshot callback: a listener's pending snapshot is delivered
snapshotDelivered ==
    \E l \in subs : /\ l.kind \in {"categories", "items"}
                    /\ l.dirty
                    /\ [l EXCEPT !.dirty = FALSE] \in subs'

\* C36: the mirror (state.categories, state.itemsByCategory) changes only in
\* a step that delivers a snapshot; a step in which a handler issues a write
\* or in which moveItem or the setup handler advances, whether its write is
\* accepted, rejected or still to be mirrored, leaves the mirror as it was.
C36_MirrorChangesOnlyInCallbacks ==
    [][ /\ state' # state => snapshotDelivered
        /\ (writeLog' # writeLog \/ mv' # mv \/ setup' # setup) => state' = state ]_vars

\* after a rejected rename a move has completed, and the mirror still holds
\* the moved item in the source category
C36_Witness ==
    /\ ~writeLog[1].ok
    /\ mv.pc = "done" /\ mv.result
    /\ ~hasItem(ownerStore, mv.rid, mv.from, mv.item)
    /\ mv.item \in DOMAIN state.itemsByCategory[mv.from]

\* every listener has delivered its latest snapshot
allDelivered == \A l \in subs : ~l.dirty

\* the mirror the latest snapshots determine
latestMirror ==
    [categories |-> ownerStore.categories[restaurantId],
     itemsByCategory |-> [c \in DOMAIN ownerStore.categories[restaurantId] |->
                            ownerStore.items[<<restaurantId, c>>]]]

\* C37: once every subscription has delivered its latest snapshot, the
\* mirror is the one those snapshots determine and the view is its
\* rendering, in whatever order the item subscriptions of the categories
\* delivered and however often render() ran in between.
C37_DeliveryOrderIsHarmless ==
    (restaurantId # NoRid /\ allDelivered)
    => /\ state = latestMirror
       /\ view.cards = renderView(latestMirror)

\* both categories' item subscriptions have delivered their latest
\* snapshots after a client changed an item of the first category
C37_Witness ==
    /\ allDelivered
    /\ storeWrites = 1
    /\ DOMAIN itemsUnsubs = {"c1", "c2"}
    /\ state.itemsByCategory["c1"] # EditStore.items[<<"r1", "c1">>]

\* this step is a press of the modal's select button
selectPressed == currentItem # NoItem /\ currentItem' = NoItem /\ selectedItems' # selectedItems

\* the button's text is the one openProductModal would give it now
labelCurrent ==
    modalSelectBtn = updateModalButton(isItemSelected(selectedItems, currentItem.name))

\* C38: the modal's button does what it reads: pressed while it reads
\* 'Remove from Selection' it removes an entry, pressed while it reads
\* 'Select Item' it adds one (the selection not having changed since the
\* modal opened).
C38_ButtonDoesWhatItReads ==
    [][ (selectPressed /\ labelCurrent)
          => /\ modalSelectBtn = "Remove from Selection"
                   => Len(selectedItems') = Len(selectedItems) - 1
             /\ modalSelectBtn = "Select Item"
                   => Len(selectedItems') = Len(selectedItems) + 1 ]_vars

\* the items of the loaded menu
menuItems == {itemsInOrder(categoriesOrEmpty(menuData).v)[i] :
                i \in 1..Len(itemsInOrder(categoriesOrEmpty(menuData).v))}

\* C39: every entry of the selection refers to an item of the loaded menu
\* that is available.
C39_OnlyAvailableItemsSelected ==
    \A i \in 1..Len(selectedItems) :
       /\ selectedItems[i].item \in menuItems
       /\ selectedItems[i].item.available

\* the page shows the card of an unavailable item, and the selection holds
\* entries of two other items
C39_Witness ==
    /\ \E k \in 1..Len(shown) : ~shown[k].item.available
    /\ \E i, j \in 1..Len(selectedItems) : selectedItems[i].item.name # selectedItems[j].item.name
    /\ \E it \in menuItems : ~it.available /\ ~isItemSelected(selectedItems, it.name)

\* the documents of a restaurant in the tool's store whose path has n parts
\* (4: a category, 6: an item)
migDocs(rid, n) == {p \in DOMAIN migStore : Len(p) = n /\ p[2] = rid}

\* the items of the r-th directory's menu.json, by category and position
sourceItems(r) ==
    UNION { {<<c, i>> : i \in 1..Len(itemsAt(r, c))} : c \in 1..Len(categoriesAt(r)) }

\* C40: after a complete run the store holds one category document per
\* category of each menu.json and one item document per item: no two source
\* categories and no two source items were written to the same path.
C40_OneDocumentPerSourceEntry ==
    mig.completed >= 1
    => \A r \in 1..Len(RestaurantDirs) :
          /\ Cardinality(migDocs(RestaurantDirs[r], 4)) = Len(categoriesAt(r))
          /\ Cardinality(migDocs(RestaurantDirs[r], 6)) = Cardinality(sourceItems(r))

====
